---- MODULE Spec2Model ----
(***************************************************************************)
(* A model of apt-golang-s3: the APT transport method that reads APT       *)
(* method-interface messages on stdin, dispatches each framed message to   *)
(* its own goroutine and answers on stdout.                                *)
(*                                                                         *)
(* Text.  A Go string / []byte is a sequence of tokens.  Every delimiter   *)
(* byte the code looks at (" ", "\n", ":", "=", "/", "@", "%", digits of a *)
(* status code) is a token of its own; a run of other bytes is one token   *)
(* spelling that run ("Config-Item", "us-west-2").  The byte length of a   *)
(* text is the sum of the lengths of its tokens.                           *)
(***************************************************************************)
EXTENDS Integers, Sequences, FiniteSets, TLC

(***************************************************************************)
(* Bounds of the model.                                                    *)
(***************************************************************************)
\* the largest number of message blocks on stdin
MaxMsgs == 2

(***************************************************************************)
(* Protocol constants, method.go:52-104.                                   *)
(***************************************************************************)
headerCodeCapabilities == 100
headerCodeStatus == 102
headerCodeURIStart == 200
headerCodeURIDone == 201
headerCodeURIFailure == 400
headerCodeGeneralFailure == 401
headerCodeURIAcquire == 600
headerCodeConfiguration == 601

headerDescriptionCapabilities == <<"Capabilities">>
headerDescriptionStatus == <<"Status">>
headerDescriptionURIStart == <<"URI", " ", "Start">>
headerDescriptionURIDone == <<"URI", " ", "Done">>
headerDescriptionURIFailure == <<"URI", " ", "Failure">>
headerDescriptionGeneralFailure == <<"General", " ", "Failure">>

fieldNameConfigItem == <<"Config-Item">>
fieldNameSendConfig == <<"Send-Config">>
fieldNamePipeline == <<"Pipeline">>
fieldNameSingleInstance == <<"Single-Instance">>
fieldNameURI == <<"URI">>
fieldNameFilename == <<"Filename">>
fieldNameSize == <<"Size">>
fieldNameLastModified == <<"Last-Modified">>
fieldNameMessage == <<"Message">>
fieldNameMD5Hash == <<"MD5-Hash">>
fieldNameMD5SumHash == <<"MD5Sum-Hash">>
fieldNameSHA1Hash == <<"SHA1-Hash">>
fieldNameSHA256Hash == <<"SHA256-Hash">>
fieldNameSHA512Hash == <<"SHA512-Hash">>

fieldValueTrue == <<"true">>
fieldValueYes == <<"yes">>
fieldValueNotFound ==
    <<"The", " ", "specified", " ", "key", " ", "does", " ", "not", " ", "exist.">>
fieldValueConnecting == <<"Connecting", " ", "to", " ", "s3.amazonaws.com">>

configItemAcquireS3Region == <<"Acquire", ":", ":", "s3", ":", ":", "region">>
configItemAcquireS3Role == <<"Acquire", ":", ":", "s3", ":", ":", "role">>

\* endpoints.UsEast1RegionID, the region New() starts with
UsEast1RegionID == <<"us-east-1">>

(***************************************************************************)
(* The Go string functions the code calls, on token sequences.             *)
(***************************************************************************)
RECURSIVE ByteLen(_)
ByteLen(str) ==
    IF str = <<>> THEN 0
    ELSE CHOOSE n \in {Len(s[1]) + ByteLen(Tail(s)) : s \in {str}} : TRUE

IsSpace(c) == c \in {" ", "\n", "\t", "\r"}

\* the one element of a singleton set; {e(x) : x \in {v}} binds x to the
\* value of v once
The(S) == CHOOSE r \in S : TRUE

\* strings.TrimSpace: the string from its first to its last non-space byte
TrimSpace(str) ==
    The({IF \A i \in 1..Len(s) : IsSpace(s[i]) THEN <<>>
         ELSE SubSeq(s,
                     CHOOSE i \in 1..Len(s) :
                         ~IsSpace(s[i]) /\ \A j \in 1..(i - 1) : IsSpace(s[j]),
                     CHOOSE i \in 1..Len(s) :
                         ~IsSpace(s[i]) /\ \A j \in (i + 1)..Len(s) : IsSpace(s[j]))
         : s \in {str}})

\* strings.TrimRight(s, cutset) for a one-byte cutset
TrimRight(str, c) ==
    The({IF \A i \in 1..Len(s) : s[i] = c THEN <<>>
         ELSE SubSeq(s, 1, CHOOSE i \in 1..Len(s) :
                               s[i] # c /\ \A j \in (i + 1)..Len(s) : s[j] = c)
         : s \in {str}})

\* strings.Index / strings.LastIndex for a one-byte needle; 0 when absent
Index(str, c) ==
    The({IF \A i \in 1..Len(s) : s[i] # c THEN 0
         ELSE CHOOSE i \in 1..Len(s) : s[i] = c /\ \A j \in 1..(i - 1) : s[j] # c
         : s \in {str}})

LastIndex(str, c) ==
    The({IF \A i \in 1..Len(s) : s[i] # c THEN 0
         ELSE CHOOSE i \in 1..Len(s) : s[i] = c /\ \A j \in (i + 1)..Len(s) : s[j] # c
         : s \in {str}})

\* strings.Split(s, sep) for a one-byte separator: one piece more than
\* there are separators, empty pieces included
RECURSIVE Split(_, _)
Split(str, sep) ==
    The({The({IF i = 0 THEN <<s>>
              ELSE <<SubSeq(s, 1, i - 1)>> \o Split(SubSeq(s, i + 1, Len(s)), sep)
              : i \in {Index(s, sep)}})
         : s \in {str}})

\* strings.Join(parts, sep)
RECURSIVE Join(_, _)
Join(parts, sep) ==
    The({IF ps = <<>> THEN <<>>
         ELSE IF Len(ps) = 1 THEN ps[1]
         ELSE ps[1] \o <<sep>> \o Join(Tail(ps), sep)
         : ps \in {parts}})

Digits == <<"0", "1", "2", "3", "4", "5", "6", "7", "8", "9">>
DigitVal(c) == (CHOOSE i \in 1..10 : Digits[i] = c) - 1
IsDigit(c) == \E i \in 1..10 : Digits[i] = c

RECURSIVE DigitsVal(_)
DigitsVal(str) ==
    The({IF s = <<>> THEN 0
         ELSE DigitsVal(SubSeq(s, 1, Len(s) - 1)) * 10 + DigitVal(s[Len(s)])
         : s \in {str}})

\* strconv.Atoi: an optional sign and at least one digit, nothing else
Atoi(str) ==
    The({The({IF ds # <<>> /\ \A i \in 1..Len(ds) : IsDigit(ds[i])
              THEN [ok |-> TRUE,
                    val |-> IF signed /\ s[1] = "-" THEN 0 - DigitsVal(ds)
                            ELSE DigitsVal(ds)]
              ELSE [ok |-> FALSE, val |-> 0]
              : ds \in {IF signed THEN Tail(s) ELSE s}})
         : s \in {str}, signed \in {str # <<>> /\ str[1] \in {"+", "-"}}})

\* fmt's %d / strconv.FormatInt(n, 10)
RECURSIVE NatDigits(_)
NatDigits(n) ==
    IF n < 10 THEN <<Digits[n + 1]>> ELSE NatDigits(n \div 10) \o <<Digits[(n % 10) + 1]>>

Itoa(n) == IF n < 0 THEN <<"-">> \o NatDigits(0 - n) ELSE NatDigits(n)

(***************************************************************************)
(* Package message.                                                        *)
(***************************************************************************)
Header(code, description) == [Status |-> code, Description |-> description]

Field(name, value) == [Name |-> name, Value |-> value]

\* Header.String: "%d %s"
HeaderString(h) == Itoa(h.Status) \o <<" ">> \o h.Description

\* Field.String with "%s:%s" for its format
FieldStringNoSpace(f) == f.Name \o <<":">> \o f.Value

\* Field.String: "%s: %s"
FieldString(f) == f.Name \o <<":", " ">> \o f.Value

RECURSIVE FieldsString(_)
FieldsString(fields) ==
    The({IF fs = <<>> THEN <<>>
         ELSE FieldString(Head(fs)) \o <<"\n">> \o FieldsString(Tail(fs))
         : fs \in {fields}})

\* Message.String: the header line, then one line per field
MessageString(m) == HeaderString(m.Header) \o <<"\n">> \o FieldsString(m.Fields)

\* parseHeader taking the tokens as they are, with no trimming of a token
parseHeaderRawTokens(line) ==
    The({The({IF ~status.ok THEN [err |-> "invalid syntax", hdr |-> Header(0, <<>>)]
              ELSE [err |-> "nil", hdr |-> Header(status.val, Join(Tail(tokens), " "))]
              : status \in {Atoi(tokens[1])}})
         : tokens \in {Split(TrimSpace(line), " ")}})

\* parseHeader
parseHeader(line) ==
    The({The({IF ~status.ok THEN [err |-> "invalid syntax", hdr |-> Header(0, <<>>)]
              ELSE [err |-> "nil",
                    hdr |-> Header(status.val,
                                   Join([i \in 1..(Len(tokens) - 1) |->
                                            TrimSpace(tokens[i + 1])], " "))]
              : status \in {Atoi(TrimSpace(tokens[1]))}})
         : tokens \in {Split(TrimSpace(line), " ")}})

\* parseField
parseField(line) ==
    The({Field(tokens[1],
               Join([i \in 1..(Len(tokens) - 1) |-> TrimSpace(tokens[i + 1])], ":"))
         : tokens \in {Split(TrimSpace(line), ":")}})

\* parseFields
parseFields(lines) == [i \in 1..Len(lines) |-> parseField(lines[i])]

NoMessage == [Header |-> Header(0, <<>>), Fields |-> <<>>]

\* parse going on to the header line however many lines there are
parseAnyLength(value) ==
    The({The({IF h.err # "nil" THEN [err |-> h.err, msg |-> NoMessage]
              ELSE [err |-> "nil",
                    msg |-> [Header |-> h.hdr, Fields |-> parseFields(Tail(lines))]]
              : h \in {parseHeader(lines[1])}})
         : lines \in {Split(TrimSpace(value), "\n")}})

\* parse (FromBytes returns its result)
parse(value) ==
    The({IF Len(lines) < 2
         THEN [err |-> "message missing required number of lines", msg |-> NoMessage]
         ELSE The({IF h.err # "nil" THEN [err |-> h.err, msg |-> NoMessage]
                   ELSE [err |-> "nil",
                         msg |-> [Header |-> h.hdr, Fields |-> parseFields(Tail(lines))]]
                   : h \in {parseHeader(lines[1])}})
         : lines \in {Split(TrimSpace(value), "\n")}})

\* GetFieldValue returning the last field of the name, not the first
GetFieldValueLast(m, name) ==
    LET at == {i \in 1..Len(m.Fields) : m.Fields[i].Name = name}
    IN  IF at = {} THEN [value |-> <<>>, found |-> FALSE]
        ELSE [value |-> m.Fields[CHOOSE i \in at : \A j \in at : i >= j].Value,
              found |-> TRUE]

\* Message.GetFieldValue
GetFieldValue(m, name) ==
    LET at == {i \in 1..Len(m.Fields) : m.Fields[i].Name = name}
    IN  IF at = {} THEN [value |-> <<>>, found |-> FALSE]
        ELSE [value |-> m.Fields[CHOOSE i \in at : \A j \in at : i <= j].Value,
              found |-> TRUE]

\* GetFieldList putting each match before the ones found so far
RECURSIVE GetFieldListPrepend(_, _)
GetFieldListPrepend(m, name) ==
    IF m.Fields = <<>> THEN <<>>
    ELSE GetFieldListPrepend([m EXCEPT !.Fields = Tail(m.Fields)], name)
         \o (IF Head(m.Fields).Name = name THEN <<Head(m.Fields)>> ELSE <<>>)

\* Message.GetFieldList
RECURSIVE GetFieldList(_, _)
GetFieldList(m, name) ==
    The({IF fs = <<>> THEN <<>>
         ELSE (IF Head(fs).Name = name THEN <<Head(fs)>> ELSE <<>>)
              \o GetFieldList([Header |-> m.Header, Fields |-> Tail(fs)], name)
         : fs \in {m.Fields}})

(***************************************************************************)
(* net/url as the code uses it: Parse, Userinfo and URL.String.            *)
(* "%2F" is one token, the escape of "/".                                  *)
(***************************************************************************)
HasPrefix(s, p) == Len(p) <= Len(s) /\ SubSeq(s, 1, Len(p)) = p

\* strings.HasSuffix on bytes: the suffix may begin inside the first token
\* it touches only when that token ends with it, which no host token does
HasSuffix(s, p) == Len(p) <= Len(s) /\ SubSeq(s, Len(s) - Len(p) + 1, Len(s)) = p

\* strings.ReplaceAll(s, old, new); old = "" is only ever called with new = ""
RECURSIVE ReplaceAll(_, _, _)
ReplaceAll(str, old, new) ==
    The({IF o = <<>> \/ s = <<>> THEN s
         ELSE IF HasPrefix(s, o)
              THEN n \o ReplaceAll(SubSeq(s, Len(o) + 1, Len(s)), o, n)
              ELSE <<Head(s)>> \o ReplaceAll(Tail(s), o, n)
         : s \in {str}, o \in {old}, n \in {new}})

\* url.PathUnescape / the unescape of userinfo
unescape(str) ==
    The({[i \in 1..Len(s) |-> IF s[i] = "%2F" THEN "/" ELSE s[i]] : s \in {str}})

\* url's escape in encodeUserPassword mode
escapeUser(str) ==
    The({[i \in 1..Len(s) |->
             CASE s[i] = "/" -> "%2F"
               [] s[i] = "@" -> "%40"
               [] s[i] = ":" -> "%3A"
               [] OTHER -> s[i]]
         : s \in {str}})

NoUser == [set |-> FALSE, username |-> <<>>, password |-> <<>>, passwordSet |-> FALSE]

NoURL == [Scheme |-> <<>>, User |-> NoUser, Host |-> <<>>, Path |-> <<>>]

\* url.Parse, getScheme: the scheme before the first ":" and the rest
urlScheme(raw) ==
    The({IF c > 1 /\ \A i \in 1..(c - 1) : raw[i] \notin {"/", "@", "%2F"}
         THEN [colon |-> c, scheme |-> SubSeq(raw, 1, c - 1),
               rest |-> SubSeq(raw, c + 1, Len(raw))]
         ELSE [colon |-> c, scheme |-> <<>>, rest |-> raw]
         : c \in {Index(raw, ":")}})

\* url.Parse: after "//" the authority runs up to the next "/"; a rest that
\* does not begin with "/" is kept as Opaque and leaves Host and Path empty
urlAuthority(rest) ==
    IF rest # <<>> /\ Head(rest) # "/" THEN [authority |-> <<>>, path |-> <<>>]
    ELSE IF ~HasPrefix(rest, <<"/", "/">>) THEN [authority |-> <<>>, path |-> rest]
    ELSE The({IF Index(a, "/") = 0 THEN [authority |-> a, path |-> <<>>]
              ELSE [authority |-> SubSeq(a, 1, Index(a, "/") - 1),
                    path |-> SubSeq(a, Index(a, "/"), Len(a))]
              : a \in {SubSeq(rest, 3, Len(rest))}})

\* url.parseAuthority: userinfo up to the last "@", split at its first ":"
urlUser(authority) ==
    The({IF at = 0 THEN [user |-> NoUser, host |-> authority]
         ELSE [host |-> SubSeq(authority, at + 1, Len(authority)),
               user |-> The({IF Index(ui, ":") = 0
                             THEN [set |-> TRUE, username |-> unescape(ui),
                                   password |-> <<>>, passwordSet |-> FALSE]
                             ELSE [set |-> TRUE,
                                   username |-> unescape(SubSeq(ui, 1, Index(ui, ":") - 1)),
                                   password |->
                                       unescape(SubSeq(ui, Index(ui, ":") + 1, Len(ui))),
                                   passwordSet |-> TRUE]
                             : ui \in {SubSeq(authority, 1, at - 1)}})]
         : at \in {LastIndex(authority, "@")}})

\* url.parseHost: what follows the last ":" of the host must be a port
validPort(host) ==
    LET hc == LastIndex(host, ":")
    IN  hc = 0 \/ \A i \in (hc + 1)..Len(host) : IsDigit(host[i])

\* url.Parse for scheme://[userinfo@]host[/path]
urlParse(raw) ==
    The({The({The({IF sr.colon = 1
                   THEN [err |-> "missing protocol scheme", url |-> NoURL]
                   ELSE IF ~validPort(uh.host)
                   THEN [err |-> "invalid port", url |-> NoURL]
                   ELSE [err |-> "nil",
                         url |-> [Scheme |-> sr.scheme, User |-> uh.user,
                                  Host |-> uh.host, Path |-> unescape(ap.path)]]
                   : uh \in {urlUser(ap.authority)}})
              : ap \in {urlAuthority(sr.rest)}})
         : sr \in {urlScheme(raw)}})

\* URL.String
URLString(u) ==
    (IF u.Scheme = <<>> THEN <<>> ELSE u.Scheme \o <<":">>)
    \o (IF u.Scheme # <<>> \/ u.Host # <<>> \/ u.User.set THEN <<"/", "/">> ELSE <<>>)
    \o (IF u.User.set
        THEN escapeUser(u.User.username)
             \o (IF u.User.passwordSet THEN <<":">> \o escapeUser(u.User.password)
                 ELSE <<>>)
             \o <<"@">>
        ELSE <<>>)
    \o u.Host \o u.Path

(***************************************************************************)
(* Location resolution, method.go:229-297.                                 *)
(***************************************************************************)
\* s[n:] for a byte count n; "panic" when n exceeds the length
RECURSIVE DropBytes(_, _)
DropBytes(str, n) ==
    The({IF k <= 0 THEN [ok |-> TRUE, s |-> s]
         ELSE IF s = <<>> THEN [ok |-> FALSE, s |-> <<>>]
         ELSE DropBytes(Tail(s), k - Len(Head(s)))
         : s \in {str}, k \in {n}})

\* preProcessURL, given sub = url[0:idx][5:] split on ":"
preProcessKeys(url, tkns) ==
    The({ReplaceAll(ReplaceAll(url, key, ReplaceAll(key, <<"/">>, <<"%2F">>)),
                    secret, ReplaceAll(secret, <<"/">>, <<"%2F">>))
         : key \in {IF Len(tkns) = 2 THEN tkns[1] ELSE <<>>},
           secret \in {IF Len(tkns) = 2 THEN tkns[2] ELSE <<>>}})

\* preProcessURL: replace any forward slashes in access key and secret
preProcessURL(url) ==
    The({IF idx = 0 THEN [panic |-> FALSE, url |-> url]
         ELSE The({IF ~sub.ok THEN [panic |-> TRUE, url |-> url]
                   ELSE [panic |-> FALSE,
                         url |-> The({preProcessKeys(url, tkns)
                                      : tkns \in {Split(sub.s, ":")}})]
                   : sub \in {DropBytes(SubSeq(url, 1, idx - 1), 5)}})
         : idx \in {Index(url, "@")}})

errLocMissingRequiredTokens ==
    <<"location", " ", "missing", " ", "required", " ", "number", " ", "of", " ", "tokens">>
errAcqMsgMissingRequiredFieldURI ==
    <<"acquire", " ", "message", " ", "missing", " ", "required", " ", "field", ":", " ", "URI">>
errAcqMsgMissingRequiredFieldFilename ==
    <<"acquire", " ", "message", " ", "missing", " ", "required", " ", "field", ":", " ",
      "Filename">>
errAcqMsgMissingRequiredFieldPassword ==
    <<"acquire", " ", "message", " ", "missing", " ", "required", " ", "value", ":", " ",
      "Password">>

NoLocation == [uri |-> NoURL, bucket |-> <<>>, key |-> <<>>]

\* newLocation taking every URI as virtual-hosted: the bucket from the
\* host, the key from the whole path
locationOfHostOnly(uri, s3Hostname) ==
    IF uri.Path = <<>>
    THEN [err |-> "panic", text |-> <<>>, loc |-> NoLocation]
    ELSE [err |-> "nil", text |-> <<>>,
          loc |-> [uri |-> uri, bucket |-> uri.Host, key |-> Tail(uri.Path)]]

\* newLocation cutting the endpoint hostname off the host, without the "."
\* before it
locationOfCutHostname(uri, s3Hostname) ==
    IF uri.Host = s3Hostname
    THEN The({IF Len(tokens) < 3
              THEN [err |-> "error", text |-> errLocMissingRequiredTokens,
                    loc |-> NoLocation]
              ELSE [err |-> "nil", text |-> <<>>,
                    loc |-> [uri |-> uri, bucket |-> tokens[2],
                             key |-> Join(SubSeq(tokens, 3, Len(tokens)), "/")]]
              : tokens \in {Split(uri.Path, "/")}})
    ELSE IF uri.Path = <<>>
    THEN [err |-> "panic", text |-> <<>>, loc |-> NoLocation]
    ELSE [err |-> "nil", text |-> <<>>,
          loc |-> [uri |-> uri,
                   bucket |-> IF HasSuffix(uri.Host, s3Hostname)
                              THEN SubSeq(uri.Host, 1, Len(uri.Host) - Len(s3Hostname))
                              ELSE uri.Host,
                   key |-> Tail(uri.Path)]]

\* newLocation once url.Parse succeeded with uri
locationOf(uri, s3Hostname) ==
    IF uri.Host = s3Hostname
    THEN The({IF Len(tokens) < 3
              THEN [err |-> "error", text |-> errLocMissingRequiredTokens,
                    loc |-> NoLocation]
              ELSE [err |-> "nil", text |-> <<>>,
                    loc |-> [uri |-> uri, bucket |-> tokens[2],
                             key |-> Join(SubSeq(tokens, 3, Len(tokens)), "/")]]
              : tokens \in {Split(uri.Path, "/")}})
    ELSE IF uri.Path = <<>>
    THEN [err |-> "panic", text |-> <<>>, loc |-> NoLocation]
    ELSE IF HasSuffix(uri.Host, s3Hostname)
    THEN [err |-> "nil", text |-> <<>>,
          loc |-> [uri |-> uri,
                   bucket |-> IF HasSuffix(uri.Host, <<".">> \o s3Hostname)
                              THEN SubSeq(uri.Host, 1,
                                          Len(uri.Host) - Len(s3Hostname) - 1)
                              ELSE uri.Host,
                   key |-> Tail(uri.Path)]]
    ELSE [err |-> "nil", text |-> <<>>,
          loc |-> [uri |-> uri, bucket |-> uri.Host, key |-> Tail(uri.Path)]]

\* newLocation: err is "nil", "error" (with its text), or "panic" for a
\* slice bound out of range
newLocation(value, s3Hostname) ==
    The({IF pre.panic THEN [err |-> "panic", text |-> <<>>, loc |-> NoLocation]
         ELSE The({IF p.err # "nil"
                   THEN [err |-> "error", text |-> <<"parse", ":", " ", p.err>>,
                         loc |-> NoLocation]
                   ELSE locationOf(p.url, s3Hostname)
                   : p \in {urlParse(pre.url)}})
         : pre \in {preProcessURL(value)}})

\* s3EndpointURL(region).Hostname(): the SDK's resolver with strict matching
s3EndpointURL(region) ==
    CASE region = <<"us-east-1">> ->
             [err |-> "nil", host |-> <<"s3", ".", "amazonaws.com">>]
      [] region = <<"us-west-2">> ->
             [err |-> "nil", host |-> <<"s3", ".", "us-west-2", ".", "amazonaws.com">>]
      [] region = <<"eu-west-1">> ->
             [err |-> "nil", host |-> <<"s3", ".", "eu-west-1", ".", "amazonaws.com">>]
      [] OTHER -> [err |-> "error", host |-> <<>>]

(***************************************************************************)
(* Response construction, method.go:185-193 and 404-613.                   *)
(***************************************************************************)
Message(h, fields) == [Header |-> h, Fields |-> fields]

\* capabilities with Pipeline listed before Send-Config
capabilitiesReordered ==
    Message(Header(headerCodeCapabilities, headerDescriptionCapabilities),
            <<Field(fieldNamePipeline, fieldValueTrue),
              Field(fieldNameSendConfig, fieldValueTrue),
              Field(fieldNameSingleInstance, fieldValueYes)>>)

\* capabilities
capabilities ==
    Message(Header(headerCodeCapabilities, headerDescriptionCapabilities),
            <<Field(fieldNameSendConfig, fieldValueTrue),
              Field(fieldNamePipeline, fieldValueTrue),
              Field(fieldNameSingleInstance, fieldValueYes)>>)

\* requestStatus
requestStatus(s3Uri, status) ==
    Message(Header(headerCodeStatus, headerDescriptionStatus),
            <<Field(fieldNameURI, URLString(s3Uri)), Field(fieldNameMessage, status)>>)

\* lastModified: t.In(gmt).Format(time.RFC1123); a time is the text it formats to
lastModified(t) == Field(fieldNameLastModified, t)

\* uriStart
uriStart(s3Uri, size, t) ==
    Message(Header(headerCodeURIStart, headerDescriptionURIStart),
            <<Field(fieldNameURI, URLString(s3Uri)),
              Field(fieldNameSize, Itoa(size)),
              lastModified(t)>>)

\* computeHash: fmt.Sprintf("%x", h.Sum(nil)); a digest is named by its
\* algorithm and the bytes digested
computeHash(alg, fileBytes) == <<alg, "(">> \o fileBytes \o <<")">>

md5Field(bytes) == Field(fieldNameMD5Hash, computeHash("md5", bytes))
\* md5SumField with a hash nothing was copied to
md5SumFieldOfNothing(bytes) == Field(fieldNameMD5SumHash, computeHash("md5", <<>>))

md5SumField(bytes) == Field(fieldNameMD5SumHash, computeHash("md5", bytes))

sha1Field(bytes) == Field(fieldNameSHA1Hash, computeHash("sha1", bytes))
sha256Field(bytes) == Field(fieldNameSHA256Hash, computeHash("sha256", bytes))
sha512Field(bytes) == Field(fieldNameSHA512Hash, computeHash("sha512", bytes))

\* uriDone, given the bytes os.ReadFile returned
uriDone(s3Uri, size, t, filename, fileBytes) ==
    Message(Header(headerCodeURIDone, headerDescriptionURIDone),
            <<Field(fieldNameURI, URLString(s3Uri)),
              Field(fieldNameFilename, filename),
              Field(fieldNameSize, Itoa(size)),
              lastModified(t),
              md5Field(fileBytes),
              md5SumField(fileBytes),
              sha1Field(fileBytes),
              sha256Field(fileBytes),
              sha512Field(fileBytes)>>)

\* notFound
notFound(s3Uri) ==
    Message(Header(headerCodeURIFailure, headerDescriptionURIFailure),
            <<Field(fieldNameURI, URLString(s3Uri)),
              Field(fieldNameMessage, fieldValueNotFound)>>)

\* generalFailure with the error text as it is
generalFailureRaw(err) ==
    Message(Header(headerCodeGeneralFailure, headerDescriptionGeneralFailure),
            <<Field(fieldNameMessage, err)>>)

\* generalFailure: newlines of the error text become spaces
generalFailure(err) ==
    Message(Header(headerCodeGeneralFailure, headerDescriptionGeneralFailure),
            <<Field(fieldNameMessage, ReplaceAll(err, <<"\n">>, <<" ">>))>>)

\* m.stdout.Println(msg.String()): the text and a line terminator
Println(text) == text \o <<"\n">>

(***************************************************************************)
(* The input: what APT writes to the method's stdin, as the lines          *)
(* bufio.Scanner yields (terminators stripped).                            *)
(***************************************************************************)
\* the header line of a Configuration message
headerCodeConfigurationLine == <<"6", "0", "1", " ", "Configuration">>

\* 601 Configuration with a region item and a role item
CfgBlock ==
    << headerCodeConfigurationLine,
       <<"Config-Item", ":", " ", "Acquire", ":", ":", "s3", ":", ":", "region", "=",
         "us-west-2">>,
       <<"Config-Item", ":", " ", "Acquire", ":", ":", "s3", ":", ":", "role", "=",
         "arn">>,
       <<>> >>

\* 600 URI Acquire of a path-style URI with credentials
AcqBlock ==
    << <<"6", "0", "0", " ", "URI", " ", "Acquire">>,
       <<"URI", ":", " ", "s3", ":", "/", "/", "id", ":", "secret", "@",
         "s3", ".", "us-west-2", ".", "amazonaws.com", "/", "bucket", "/", "a.deb">>,
       <<"Filename", ":", " ", "/", "tmp", "/", "a.deb">>,
       <<>> >>

\* a message of the format family the method does not consume
LogBlock ==
    << <<"1", "0", "1", " ", "Log">>,
       <<"Message", ":", " ", "hello">>,
       <<>> >>

\* a message whose header has no status code
BadBlock ==
    << <<"oops", " ", "Status">>,
       <<"Message", ":", " ", "hello">>,
       <<>> >>

Blocks == {CfgBlock, AcqBlock, LogBlock, BadBlock}

RECURSIVE Flatten(_)
Flatten(ss) == IF ss = <<>> THEN <<>> ELSE Head(ss) \o Flatten(Tail(ss))

\* every stdin made of at most MaxMsgs blocks
Inputs == {Flatten(bs) : bs \in UNION {[1..n -> Blocks] : n \in 0..MaxMsgs}}

(***************************************************************************)
(* What the storage backend holds for a probed object: its bytes and its   *)
(* modification time as RFC 1123 text.                                     *)
(***************************************************************************)
ObjectBody == <<"deb">>
ObjectLastModified == <<"Thu,", " ", "25", " ", "Oct", " ", "2018", " ", "20", ":",
                        "17", ":", "39", " ", "GMT">>
BackendError == <<"RequestError", ":", " ", "send", " ", "request", " ", "failed", "\n",
                  "caused", " ", "by", ":", " ", "timeout">>
FileError == <<"open", ":", " ", "permission", " ", "denied">>

(***************************************************************************)
(* State.                                                                  *)
(***************************************************************************)
VARIABLES
    stdin,       \* os.Stdin: the lines not yet read
    rpos,        \* readInput: the number of lines the scanner has returned
    rpc,         \* readInput: "idle", "scan", "send", "add", "finished"
    buffer,      \* readInput: the accumulation buffer
    runpc,       \* Run: "flush", "go", "wait", "blocked", "released", "returned"
    exit,        \* the process: "running", "exit0", "exit1", "panic"
    wg,          \* m.wg: the WaitGroup counter
    region,      \* m.region
    roleARN,     \* m.roleARN
    configured,  \* m.configured
    out,         \* os.Stdout: the messages written, in order
    hpc,         \* per handleBytes goroutine: where it is
    hbuf,        \* per handleBytes goroutine: the bytes it was given
    hl,          \* per handleBytes goroutine: its local variables
    calls,       \* per handleBytes goroutine: the backend and file calls made
    wgDone,      \* per handleBytes goroutine: the wg.Done() calls made
    wgAdd,       \* the wg.Add(1) calls readInput made
    fnArg,       \* what the operation under study was given: for Run, os.Stdin
    fnRes        \* what a function under study returned, as a one-element
                 \* sequence; empty before it has

vars == <<stdin, rpos, rpc, buffer, runpc, exit, wg, region, roleARN, configured, out,
          hpc, hbuf, hl, calls, wgDone, wgAdd, fnArg, fnRes>>

readerVars == <<stdin, rpos, rpc, buffer, wgAdd>>
stateVars == <<region, roleARN, configured>>
handlerVars == <<hpc, hbuf, hl, calls, wgDone>>
harness == <<fnArg, fnRes>>

Handlers == 1..Len(hpc)

NoLocals == [msg |-> NoMessage, err |-> <<>>, i |-> 1, head |-> "", loc |-> NoLocation, epRegion |-> <<>>,
             clRegion |-> <<>>, cred |-> <<"none">>, file |-> <<>>]

NoCalls == [head |-> 0, create |-> 0, download |-> 0]

\* New(): the Method as constructed, nothing read yet
Constructed ==
    /\ rpos = 0
    /\ rpc = "idle"
    /\ buffer = <<>>
    /\ runpc = "flush"
    /\ exit = "running"
    /\ wg = 1
    /\ region = UsEast1RegionID
    /\ roleARN = <<>>
    /\ configured = FALSE
    /\ out = <<>>
    /\ hpc = <<>>
    /\ hbuf = <<>>
    /\ hl = <<>>
    /\ calls = <<>>
    /\ wgDone = <<>>
    /\ wgAdd = 0
    /\ fnRes = <<>>

\* the method started on an input of the catalogue
Init ==
    /\ stdin \in Inputs
    /\ fnArg = stdin
    /\ Constructed

\* a message written to stdout by goroutine h (0 is Run): Println(msg.String())
Written(h, msg) ==
    The({[h |-> h, code |-> m.Header.Status, text |-> Println(MessageString(m)),
          msg |-> m] : m \in {msg}})

(***************************************************************************)
(* sync.WaitGroup.  Done() that brings the counter to zero releases a      *)
(* blocked Wait(); a Done() below zero panics; Wait() woken while the      *)
(* counter has been raised again panics ("WaitGroup is reused before       *)
(* previous Wait has returned").                                           *)
(***************************************************************************)
WgDoneCall ==
    /\ wg' = wg - 1
    /\ runpc' = IF wg - 1 = 0 /\ runpc = "blocked" THEN "released" ELSE runpc
    /\ exit' = IF wg - 1 < 0 THEN "panic" ELSE exit

(***************************************************************************)
(* Run, method.go:142-152.                                                 *)
(***************************************************************************)
flushCapabilities ==
    /\ exit = "running"
    /\ runpc = "flush"
    /\ out' = Append(out, Written(0, capabilities))
    /\ runpc' = "go"
    /\ UNCHANGED <<harness, readerVars, exit, wg, stateVars, handlerVars>>

\* go m.readInput(os.Stdin); go m.processMessages()
RunGo ==
    /\ exit = "running"
    /\ runpc = "go"
    /\ rpc' = "scan"
    /\ runpc' = "wait"
    /\ UNCHANGED <<harness, stdin, rpos, buffer, wgAdd, exit, wg, stateVars, out, handlerVars>>

\* m.wg.Wait() returning whatever the counter is
RunWaitReturns ==
    /\ exit = "running"
    /\ runpc = "wait"
    /\ runpc' = "returned"
    /\ UNCHANGED <<harness, readerVars, exit, wg, stateVars, out, handlerVars>>

\* m.wg.Wait()
RunWait ==
    /\ exit = "running"
    /\ runpc = "wait"
    /\ runpc' = IF wg = 0 THEN "returned" ELSE "blocked"
    /\ UNCHANGED <<harness, readerVars, exit, wg, stateVars, out, handlerVars>>

\* the released Wait() resumes
RunWake ==
    /\ exit = "running"
    /\ runpc = "released"
    /\ runpc' = IF wg = 0 THEN "returned" ELSE runpc
    /\ exit' = IF wg = 0 THEN exit ELSE "panic"
    /\ UNCHANGED <<harness, readerVars, wg, stateVars, out, handlerVars>>

\* Run has returned: main returns and the process exits with status 0
MainReturn ==
    /\ exit = "running"
    /\ runpc = "returned"
    /\ exit' = "exit0"
    /\ UNCHANGED <<harness, readerVars, runpc, wg, stateVars, out, handlerVars>>

(***************************************************************************)
(* readInput, method.go:160-183.                                           *)
(***************************************************************************)
\* len(trimmed) == 0 && buffer.Len() > 3
messageComplete(trimmed, buf) == ByteLen(trimmed) = 0 /\ ByteLen(buf) > 3

\* scanner.Scan() returned a line
ReadLine ==
    /\ exit = "running"
    /\ rpc = "scan"
    /\ stdin # <<>>
    /\ LET line == Head(stdin) \o <<"\n">>
           trimmed == TrimRight(line, "\n")
       IN  /\ buffer' = buffer \o line
           /\ rpc' = IF messageComplete(trimmed, buffer \o line) THEN "send" ELSE "scan"
    /\ stdin' = Tail(stdin)
    /\ rpos' = rpos + 1
    /\ UNCHANGED <<harness, wgAdd, runpc, exit, wg, stateVars, out, handlerVars>>

\* processMessages calling m.handleBytes(bytes) itself, without go: it is
\* back at the channel only when that call has returned
DispatcherReadyInline == \A h \in 1..Len(hpc) : hpc[h] = "done"

\* processMessages is ready to receive: it starts a goroutine per message
\* and goes back to the channel at once
DispatcherReady == TRUE

\* m.msgChan <- buffer.Bytes() meets bytes := <-m.msgChan, and
\* processMessages starts go m.handleBytes(bytes)
processMessages ==
    /\ exit = "running"
    /\ rpc = "send"
    /\ DispatcherReady
    /\ rpc' = "add"
    /\ hpc' = Append(hpc, "start")
    /\ hbuf' = Append(hbuf, buffer)
    /\ hl' = Append(hl, NoLocals)
    /\ calls' = Append(calls, NoCalls)
    /\ wgDone' = Append(wgDone, 0)
    /\ UNCHANGED <<harness, stdin, rpos, buffer, wgAdd, runpc, exit, wg, stateVars, out>>

\* readInput without its m.wg.Add(1)
ReaderAddNone ==
    /\ exit = "running"
    /\ rpc = "add"
    /\ wg' = wg
    /\ wgAdd' = wgAdd
    /\ buffer' = <<>>
    /\ rpc' = "scan"
    /\ UNCHANGED <<harness, stdin, rpos, runpc, exit, stateVars, out, handlerVars>>

\* m.wg.Add(1); buffer = &bytes.Buffer{}
ReaderAdd ==
    /\ exit = "running"
    /\ rpc = "add"
    /\ wg' = wg + 1
    /\ wgAdd' = wgAdd + 1
    /\ buffer' = <<>>
    /\ rpc' = "scan"
    /\ UNCHANGED <<harness, stdin, rpos, runpc, exit, stateVars, out, handlerVars>>

\* readInput sending what the buffer holds when scanner.Scan() returns
\* false, before its m.wg.Done()
ReaderEOFFlush ==
    /\ exit = "running"
    /\ rpc = "scan"
    /\ stdin = <<>>
    /\ rpc' = "finished"
    /\ WgDoneCall
    /\ hpc' = IF buffer # <<>> THEN Append(hpc, "start") ELSE hpc
    /\ hbuf' = IF buffer # <<>> THEN Append(hbuf, buffer) ELSE hbuf
    /\ hl' = IF buffer # <<>> THEN Append(hl, NoLocals) ELSE hl
    /\ calls' = IF buffer # <<>> THEN Append(calls, NoCalls) ELSE calls
    /\ wgDone' = IF buffer # <<>> THEN Append(wgDone, 0) ELSE wgDone
    /\ UNCHANGED <<harness, stdin, rpos, buffer, wgAdd, region, roleARN, configured, out>>

\* scanner.Scan() returned false: break, m.wg.Done()
ReaderEOF ==
    /\ exit = "running"
    /\ rpc = "scan"
    /\ stdin = <<>>
    /\ rpc' = "finished"
    /\ WgDoneCall
    /\ UNCHANGED <<harness, stdin, rpos, buffer, wgAdd, stateVars, out, handlerVars>>

(***************************************************************************)
(* handleBytes and handleError, method.go:206-216 and 551-556.             *)
(***************************************************************************)
\* handleBytes treating every status other than 600 as a Configuration
RouteElseConfigure(r) ==
    IF r.err # "nil" THEN "fail"
    ELSE IF r.msg.Header.Status = headerCodeURIAcquire THEN "wait"
    ELSE "cfg"

\* the branch handleBytes takes for the result of message.FromBytes
Route(r) ==
    IF r.err # "nil" THEN "fail"
    ELSE IF r.msg.Header.Status = headerCodeURIAcquire THEN "wait"
    ELSE IF r.msg.Header.Status = headerCodeConfiguration THEN "cfg"
    ELSE "done"

handleBytes(h) ==
    /\ exit = "running"
    /\ hpc[h] = "start"
    /\ \E r \in {parse(hbuf[h])} :
          /\ hpc' = [hpc EXCEPT ![h] = Route(r)]
          /\ hl' = [hl EXCEPT ![h].msg = r.msg,
                              ![h].err = IF r.err # "nil" THEN <<r.err>> ELSE @]
    /\ UNCHANGED <<harness, readerVars, runpc, exit, wg, stateVars, out, hbuf, calls, wgDone>>

\* handleError(err) with err != nil: m.outputGeneralFailure(err) ...
outputGeneralFailure(h) ==
    /\ exit = "running"
    /\ hpc[h] = "fail"
    /\ out' = Append(out, Written(h, generalFailure(hl[h].err)))
    /\ hpc' = [hpc EXCEPT ![h] = "exit"]
    /\ UNCHANGED <<harness, readerVars, runpc, exit, wg, stateVars, hbuf, hl, calls, wgDone>>

\* ... then os.Exit(1)
osExit(h) ==
    /\ exit = "running"
    /\ hpc[h] = "exit"
    /\ exit' = "exit1"
    /\ UNCHANGED <<harness, readerVars, runpc, wg, stateVars, out, handlerVars>>

(***************************************************************************)
(* configure, method.go:389-402.                                           *)
(***************************************************************************)
\* configure taking the value of every item with a "=" as the region,
\* whatever its key
configureItemAnyKey(h) ==
    /\ exit = "running"
    /\ hpc[h] = "cfg"
    /\ \E items \in {GetFieldList(hl[h].msg, fieldNameConfigItem)} :
          /\ hl[h].i <= Len(items)
          /\ \E config \in {Split(items[hl[h].i].Value, "=")} :
                /\ region' = IF Len(config) >= 2 THEN config[2] ELSE region
                /\ UNCHANGED <<roleARN, exit>>
    /\ hl' = [hl EXCEPT ![h].i = @ + 1]
    /\ UNCHANGED <<harness, readerVars, runpc, wg, configured, out, hpc, hbuf, calls, wgDone>>

\* one iteration of the loop over the Config-Item fields; config[1] of an
\* item without "=" is an index out of range
configureItem(h) ==
    /\ exit = "running"
    /\ hpc[h] = "cfg"
    /\ \E items \in {GetFieldList(hl[h].msg, fieldNameConfigItem)} :
          /\ hl[h].i <= Len(items)
          /\ \E config \in {Split(items[hl[h].i].Value, "=")} :
                LET oob == /\ config[1] \in {configItemAcquireS3Region,
                                             configItemAcquireS3Role}
                           /\ Len(config) < 2
                IN  /\ region' = IF config[1] = configItemAcquireS3Region /\ ~oob
                                 THEN config[2] ELSE region
                    /\ roleARN' = IF config[1] = configItemAcquireS3Role /\ ~oob
                                  THEN config[2] ELSE roleARN
                    /\ exit' = IF oob THEN "panic" ELSE exit
    /\ hl' = [hl EXCEPT ![h].i = @ + 1]
    /\ UNCHANGED <<harness, readerVars, runpc, wg, configured, out, hpc, hbuf, calls, wgDone>>

\* configure flipping m.configured at the end of its loop
configureSetToggle(h) ==
    /\ exit = "running"
    /\ hpc[h] = "cfg"
    /\ hl[h].i > Len(GetFieldList(hl[h].msg, fieldNameConfigItem))
    /\ configured' = ~configured
    /\ hpc' = [hpc EXCEPT ![h] = "cfgWg"]
    /\ UNCHANGED <<harness, readerVars, runpc, exit, wg, region, roleARN, out, hbuf, hl, calls,
                   wgDone>>

\* the loop is over: m.configured = true
configureSet(h) ==
    /\ exit = "running"
    /\ hpc[h] = "cfg"
    /\ hl[h].i > Len(GetFieldList(hl[h].msg, fieldNameConfigItem))
    /\ configured' = TRUE
    /\ hpc' = [hpc EXCEPT ![h] = "cfgWg"]
    /\ UNCHANGED <<harness, readerVars, runpc, exit, wg, region, roleARN, out, hbuf, hl, calls,
                   wgDone>>

\* m.wg.Done()
configureDone(h) ==
    /\ exit = "running"
    /\ hpc[h] = "cfgWg"
    /\ WgDoneCall
    /\ wgDone' = [wgDone EXCEPT ![h] = @ + 1]
    /\ hpc' = [hpc EXCEPT ![h] = "done"]
    /\ UNCHANGED <<harness, readerVars, stateVars, out, hbuf, hl, calls>>

(***************************************************************************)
(* uriAcquire, method.go:301-383 and 510-542.                              *)
(***************************************************************************)
\* waitForConfiguration returning without looking at m.configured
WaitReturnsAtOnce(flag) == TRUE

\* waitForConfiguration returns once it reads m.configured as true
WaitReturns(flag) == flag

waitForConfiguration(h) ==
    /\ exit = "running"
    /\ hpc[h] = "wait"
    /\ WaitReturns(configured)
    /\ hpc' = [hpc EXCEPT ![h] = "resolve"]
    /\ UNCHANGED <<harness, readerVars, runpc, exit, wg, stateVars, out, hbuf, hl, calls, wgDone>>

\* the error uriAcquire hands to handleError before the status message:
\* no URI field, no endpoint for the region, or no location; <<>> for none
resolveError(uri, ep, nl, rgn) ==
    IF ~uri.found THEN errAcqMsgMissingRequiredFieldURI
    ELSE IF ep.err # "nil"
    THEN <<"resolving", " ", "S3", " ", "endpoint", " ", "for", " ", "region", " ">>
         \o rgn
    ELSE IF nl.err = "error" THEN nl.text
    ELSE <<>>

\* the URI field, s3EndpointURL(m.region) and newLocation
resolve(h) ==
    /\ exit = "running"
    /\ hpc[h] = "resolve"
    /\ \E uri \in {GetFieldValue(hl[h].msg, fieldNameURI)}, ep \in {s3EndpointURL(region)} :
          \E nl \in {newLocation(uri.value, ep.host)} :
             \E err \in {resolveError(uri, ep, nl, region)} :
                LET panics == uri.found /\ ep.err = "nil" /\ nl.err = "panic"
                IN  /\ hpc' = [hpc EXCEPT ![h] = IF err # <<>> THEN "fail" ELSE "status"]
                    /\ hl' = [hl EXCEPT ![h].err = err,
                                        ![h].loc = IF err = <<>> /\ ~panics
                                                   THEN nl.loc ELSE @,
                                        ![h].epRegion = region]
                    /\ exit' = IF panics THEN "panic" ELSE exit
    /\ UNCHANGED <<harness, readerVars, runpc, wg, stateVars, out, hbuf, calls, wgDone>>

\* m.outputRequestStatus(ol.uri, fieldValueConnecting)
outputRequestStatus(h) ==
    /\ exit = "running"
    /\ hpc[h] = "status"
    /\ out' = Append(out, Written(h, requestStatus(hl[h].loc.uri, fieldValueConnecting)))
    /\ hpc' = [hpc EXCEPT ![h] = "client"]
    /\ UNCHANGED <<harness, readerVars, runpc, exit, wg, stateVars, hbuf, hl, calls, wgDone>>

\* s3Client preferring the configured role to the credentials of the URI
s3ClientRoleFirst(h) ==
    /\ exit = "running"
    /\ hpc[h] = "client"
    /\ LET user == hl[h].loc.uri.User
           nopw == roleARN = <<>> /\ user.username # <<>> /\ ~user.passwordSet
           cred == IF roleARN # <<>> THEN <<"role", ":">> \o roleARN
                   ELSE IF user.username # <<>>
                   THEN <<"static", ":">> \o user.username \o <<":">> \o user.password
                   ELSE <<"default">>
       IN  /\ hpc' = [hpc EXCEPT ![h] = IF nopw THEN "fail" ELSE "head"]
           /\ hl' = [hl EXCEPT ![h].err = IF nopw THEN errAcqMsgMissingRequiredFieldPassword
                                          ELSE @,
                               ![h].cred = cred,
                               ![h].clRegion = region]
    /\ UNCHANGED <<harness, readerVars, runpc, exit, wg, stateVars, out, hbuf, calls, wgDone>>

\* m.s3Client(ol.uri.User): the region and the credentials of the client
s3Client(h) ==
    /\ exit = "running"
    /\ hpc[h] = "client"
    /\ LET user == hl[h].loc.uri.User
           nopw == user.username # <<>> /\ ~user.passwordSet
           cred == IF user.username # <<>>
                   THEN <<"static", ":">> \o user.username \o <<":">> \o user.password
                   ELSE IF roleARN # <<>> THEN <<"role", ":">> \o roleARN
                   ELSE <<"default">>
       IN  /\ hpc' = [hpc EXCEPT ![h] = IF nopw THEN "fail" ELSE "head"]
           /\ hl' = [hl EXCEPT ![h].err = IF nopw THEN errAcqMsgMissingRequiredFieldPassword
                                          ELSE @,
                               ![h].cred = cred,
                               ![h].clRegion = region]
    /\ UNCHANGED <<harness, readerVars, runpc, exit, wg, stateVars, out, hbuf, calls, wgDone>>

\* uriAcquire handing a 404 to handleError like any other error
AfterHeadAllFatal(res) ==
    CASE res = "ok" -> "uriStart"
      [] OTHER -> "fail"

\* uriAcquire going on to the download without m.outputURIStart
AfterHeadNoStart(res) ==
    CASE res = "ok" -> "create"
      [] res = "notfound" -> "notFound"
      [] OTHER -> "fail"

\* uriAcquire calling client.HeadObject again after an error that is not
\* a 404
AfterHeadRetry(res) ==
    CASE res = "ok" -> "uriStart"
      [] res = "notfound" -> "notFound"
      [] OTHER -> "head"

\* where uriAcquire goes after client.HeadObject returned res
AfterHead(res) ==
    CASE res = "ok" -> "uriStart"
      [] res = "notfound" -> "notFound"
      [] OTHER -> "fail"

\* client.HeadObject: the object exists, a 404, or any other error
HeadObject(h) ==
    /\ exit = "running"
    /\ hpc[h] = "head"
    /\ \E res \in {"ok", "notfound", "error"} :
          /\ hpc' = [hpc EXCEPT ![h] = AfterHead(res)]
          /\ hl' = [hl EXCEPT ![h].err = IF res = "error" THEN BackendError ELSE @,
                              ![h].head = res]
    /\ calls' = [calls EXCEPT ![h].head = @ + 1]
    /\ UNCHANGED <<harness, readerVars, runpc, exit, wg, stateVars, out, hbuf, wgDone>>

\* outputNotFound: the message ...
outputNotFound(h) ==
    /\ exit = "running"
    /\ hpc[h] = "notFound"
    /\ out' = Append(out, Written(h, notFound(hl[h].loc.uri)))
    /\ hpc' = [hpc EXCEPT ![h] = "notFoundWg"]
    /\ UNCHANGED <<harness, readerVars, runpc, exit, wg, stateVars, hbuf, hl, calls, wgDone>>

\* ... then m.wg.Done(), and uriAcquire returns
outputNotFoundDone(h) ==
    /\ exit = "running"
    /\ hpc[h] = "notFoundWg"
    /\ WgDoneCall
    /\ wgDone' = [wgDone EXCEPT ![h] = @ + 1]
    /\ hpc' = [hpc EXCEPT ![h] = "done"]
    /\ UNCHANGED <<harness, readerVars, stateVars, out, hbuf, hl, calls>>

\* m.outputURIStart(ol.uri, expectedLen, lastModified)
outputURIStart(h) ==
    /\ exit = "running"
    /\ hpc[h] = "uriStart"
    /\ out' = Append(out, Written(h, uriStart(hl[h].loc.uri, ByteLen(ObjectBody),
                                              ObjectLastModified)))
    /\ hpc' = [hpc EXCEPT ![h] = "create"]
    /\ UNCHANGED <<harness, readerVars, runpc, exit, wg, stateVars, hbuf, hl, calls, wgDone>>

\* the Filename field and os.Create(filename)
osCreate(h) ==
    /\ exit = "running"
    /\ hpc[h] = "create"
    /\ LET filename == GetFieldValue(hl[h].msg, fieldNameFilename)
       IN  \E ok \in BOOLEAN :
              /\ hpc' = [hpc EXCEPT ![h] = IF filename.found /\ ok THEN "download"
                                           ELSE "fail"]
              /\ hl' = [hl EXCEPT ![h].err =
                           IF ~filename.found THEN errAcqMsgMissingRequiredFieldFilename
                           ELSE IF ~ok THEN FileError ELSE @]
              /\ calls' = [calls EXCEPT ![h].create =
                              IF filename.found /\ ok THEN @ + 1 ELSE @]
    /\ UNCHANGED <<harness, readerVars, runpc, exit, wg, stateVars, out, hbuf, wgDone>>

\* downloader.Download(file, ...)
Download(h) ==
    /\ exit = "running"
    /\ hpc[h] = "download"
    /\ \E ok \in BOOLEAN :
          /\ hpc' = [hpc EXCEPT ![h] = IF ok THEN "uriDone" ELSE "fail"]
          /\ hl' = [hl EXCEPT ![h].err = IF ok THEN @ ELSE BackendError,
                              ![h].file = IF ok THEN ObjectBody ELSE @]
    /\ calls' = [calls EXCEPT ![h].download = @ + 1]
    /\ UNCHANGED <<harness, readerVars, runpc, exit, wg, stateVars, out, hbuf, wgDone>>

\* outputURIDone: uriDone reads the file back (os.ReadFile) and the message
\* is written ...
outputURIDone(h) ==
    /\ exit = "running"
    /\ hpc[h] = "uriDone"
    /\ \E ok \in BOOLEAN :
          /\ hpc' = [hpc EXCEPT ![h] = IF ok THEN "uriDoneWg" ELSE "fail"]
          /\ hl' = [hl EXCEPT ![h].err = IF ok THEN @ ELSE FileError]
          /\ out' = IF ok
                    THEN Append(out,
                                Written(h, uriDone(hl[h].loc.uri, ByteLen(hl[h].file),
                                                   ObjectLastModified,
                                                   GetFieldValue(hl[h].msg,
                                                                 fieldNameFilename).value,
                                                   hl[h].file)))
                    ELSE out
    /\ UNCHANGED <<harness, readerVars, runpc, exit, wg, stateVars, hbuf, calls, wgDone>>

\* ... then m.wg.Done(), and uriAcquire returns
outputURIDoneDone(h) ==
    /\ exit = "running"
    /\ hpc[h] = "uriDoneWg"
    /\ WgDoneCall
    /\ wgDone' = [wgDone EXCEPT ![h] = @ + 1]
    /\ hpc' = [hpc EXCEPT ![h] = "done"]
    /\ UNCHANGED <<harness, readerVars, stateVars, out, hbuf, hl, calls>>

(***************************************************************************)
(* The specification.                                                      *)
(***************************************************************************)
Handle(h) ==
    \/ handleBytes(h)
    \/ outputGeneralFailure(h)
    \/ osExit(h)
    \/ configureItem(h)
    \/ configureSet(h)
    \/ configureDone(h)
    \/ waitForConfiguration(h)
    \/ resolve(h)
    \/ outputRequestStatus(h)
    \/ s3Client(h)
    \/ HeadObject(h)
    \/ outputNotFound(h)
    \/ outputNotFoundDone(h)
    \/ outputURIStart(h)
    \/ osCreate(h)
    \/ Download(h)
    \/ outputURIDone(h)
    \/ outputURIDoneDone(h)

Next ==
    \/ flushCapabilities
    \/ RunGo
    \/ RunWait
    \/ RunWake
    \/ MainReturn
    \/ ReadLine
    \/ processMessages
    \/ ReaderAdd
    \/ ReaderEOF
    \/ \E h \in Handlers : Handle(h)

Spec == Init /\ [][Next]_vars

\* every goroutine that can take a step eventually takes one, and every
\* backend call returns
FairSpec == Spec /\ WF_vars(Next)

(***************************************************************************)
(* Properties.                                                             *)
(***************************************************************************)
IsAcquire(h) == hl[h].msg.Header.Status = headerCodeURIAcquire

IsConfiguration(h) == hl[h].msg.Header.Status = headerCodeConfiguration

\* the codes of the request responses handler h wrote, in order (a 401
\* General Failure names no request and is not among them)
Codes(h) ==
    LET Mine(e) == e.h = h /\ e.code # headerCodeGeneralFailure
        mine == SelectSeq(out, Mine)
    IN  [i \in 1..Len(mine) |-> mine[i].code]

Wrote(h) == \E i \in 1..Len(out) : out[i].h = h

IsPrefix(s, t) == Len(s) <= Len(t) /\ s = SubSeq(t, 1, Len(s))

ReaderFinished == rpc = "finished"

\* C1: Run's wait is released only after readInput has reached end of
\* input and every dispatched handler has terminated.
C1_RunWaitsForAll ==
    runpc \in {"released", "returned"}
        => ReaderFinished /\ \A h \in Handlers : hpc[h] = "done"

\* a Configuration handler that has applied every Config-Item of its message
ConfigApplied(c) ==
    /\ IsConfiguration(c)
    /\ hl[c].i > Len(GetFieldList(hl[c].msg, fieldNameConfigItem))

\* C2: until some Configuration message has had all of its Config-Item
\* fields applied, an acquire handler stays in waitForConfiguration: it has
\* resolved no endpoint, written no message and made no backend call.
C2_AcquireGated ==
    \A h \in Handlers :
        IsAcquire(h) /\ ~(\E c \in Handlers : ConfigApplied(c))
            => /\ hpc[h] = "wait"
               /\ hl[h].epRegion = <<>>
               /\ ~Wrote(h)
               /\ calls[h] = NoCalls

\* the acquire was framed before the Configuration and has probed the backend
C2_Witness ==
    /\ Len(hpc) >= 2
    /\ IsAcquire(1)
    /\ IsConfiguration(2)
    /\ calls[1].head = 1

\* C3: every framed message adds one unit of outstanding work, and every
\* handler that terminates without aborting the process has released
\* exactly one, whatever the status code of its message.
C3_OneUnitPerMessage ==
    /\ wgAdd = Len(hpc) - (IF rpc = "add" THEN 1 ELSE 0)
    /\ \A h \in Handlers : wgDone[h] = (IF hpc[h] = "done" THEN 1 ELSE 0)

\* stdin holds only well-formed 600 and 601 messages, at least one of them
\* a Configuration
WellFormedInput ==
    stdin \in {Flatten(bs) :
                 bs \in {b \in UNION {[1..n -> {CfgBlock, AcqBlock}] : n \in 1..MaxMsgs} :
                           \E i \in DOMAIN b : b[i] = CfgBlock}}

\* a backend or file call has returned an error other than not-found
BackendFailed == \E h \in Handlers : hl[h].err \in {BackendError, FileError}

\* C4: on well-formed input with a Configuration message, unless a backend
\* call fails, the outstanding count eventually is zero and Run returns.
C4_RunReturns == WellFormedInput => <>(BackendFailed \/ (wg = 0 /\ runpc = "returned"))

\* stdin holds a Configuration message
InputHasConfiguration == \E i \in 1..Len(stdin) : stdin[i] = CfgBlock[1]

Aborted == exit \in {"exit1", "panic"}

\* C5: when the input holds a Configuration message and an acquire handler
\* is waiting for configuration, then eventually the configuration is
\* applied and no handler is left waiting (unless a handler aborts the
\* process): the waiting handler blocks neither the reader nor the dispatch
\* and handling of the Configuration message.
C5_NoBlocking ==
    (InputHasConfiguration /\ \E h \in Handlers : hpc[h] = "wait" /\ ~configured)
        ~> (Aborted \/ (configured /\ \A h \in Handlers : hpc[h] # "wait"))

\* the acquire was framed first, waited, and went on after the Configuration
C5_Witness ==
    /\ Len(hpc) >= 2
    /\ IsAcquire(1)
    /\ IsConfiguration(2)
    /\ hpc[1] = "status"

\* C6: the responses written for one acquire request are a prefix of
\* (102, 200, 201) or of (102, 400).
C6_ResponseOrder ==
    \A h \in Handlers :
        \/ IsPrefix(Codes(h), <<headerCodeStatus, headerCodeURIStart, headerCodeURIDone>>)
        \/ IsPrefix(Codes(h), <<headerCodeStatus, headerCodeURIFailure>>)

C6_Witness ==
    \E h \in Handlers :
        Codes(h) = <<headerCodeStatus, headerCodeURIStart, headerCodeURIDone>>

\* C7: after a 404 from the probe the handler writes one 400 URI Failure,
\* releases its unit of outstanding work exactly once, creates no file,
\* starts no download and never enters handleError (it does not end the
\* process).
C7_NotFoundRecovered ==
    \A h \in Handlers :
        hl[h].head = "notfound"
            => /\ hpc[h] \in {"notFound", "notFoundWg", "done"}
               /\ Codes(h) = (IF hpc[h] = "notFound" THEN <<headerCodeStatus>>
                              ELSE <<headerCodeStatus, headerCodeURIFailure>>)
               /\ wgDone[h] = (IF hpc[h] = "done" THEN 1 ELSE 0)
               /\ calls[h].create = 0
               /\ calls[h].download = 0
               /\ hl[h].err = <<>>

\* a not-found request has been answered and the process is still running
C7_Witness ==
    \E h \in Handlers :
        /\ hl[h].head = "notfound"
        /\ hpc[h] = "done"
        /\ exit = "running"

\* C8: once a handler has written its 401 General Failure, the process
\* terminates with a non-zero exit status only.
C8_FatalExit ==
    (\E h \in Handlers : hpc[h] = "exit") => exit # "exit0"

\* the text of the Capabilities message and the blank line after it
CapabilitiesText ==
    <<"1", "0", "0", " ", "Capabilities", "\n",
      "Send-Config", ":", " ", "true", "\n",
      "Pipeline", ":", " ", "true", "\n",
      "Single-Instance", ":", " ", "yes", "\n",
      "\n">>

\* C9: the first message on stdout is the Capabilities message, it is
\* written once, and nothing is read or handled before it is written.
C9_CapabilitiesFirst ==
    /\ out # <<>> => out[1].h = 0 /\ out[1].text = CapabilitiesText
    /\ \A i \in 2..Len(out) : out[i].code # headerCodeCapabilities /\ out[i].h # 0
    /\ (rpc # "idle" \/ rpos > 0 \/ hpc # <<>>) => out # <<>>

\* a request has been answered after the Capabilities message
C9_Witness == Len(out) >= 2 /\ out[1].text = CapabilitiesText /\ rpos > 0

\* handler h has parsed its message and its status code is neither 600 nor 601
Ignored(h) ==
    /\ hl[h].msg # NoMessage
    /\ hl[h].msg.Header.Status \notin {headerCodeURIAcquire, headerCodeConfiguration}

\* C10: every step of the handler of a message with another status code,
\* the step that parses it included, ends the handler and leaves the output,
\* the backend calls, region, roleARN and configured as they were.
C10_IgnoredNoEffect ==
    [][\A h \in Handlers :
          hpc'[h] # hpc[h] /\ Ignored(h)'
              => /\ hpc'[h] = "done"
                 /\ UNCHANGED <<out, calls, region, roleARN, configured>>]_vars

C10_Witness == \E h \in Handlers : Ignored(h) /\ hpc[h] = "done"

\* the text of a sequence of lines, each with its terminator
RECURSIVE LinesText(_)
LinesText(ls) == IF ls = <<>> THEN <<>> ELSE Head(ls) \o <<"\n">> \o LinesText(Tail(ls))

\* the messages of an input: each runs up to and including its blank line
RECURSIVE MessagesOf(_)
MessagesOf(ls) ==
    IF \A i \in 1..Len(ls) : ls[i] # <<>> THEN <<>>
    ELSE The({<<LinesText(SubSeq(ls, 1, i))>> \o MessagesOf(SubSeq(ls, i + 1, Len(ls)))
              : i \in {CHOOSE i \in 1..Len(ls) :
                           ls[i] = <<>> /\ \A j \in 1..(i - 1) : ls[j] # <<>>}})

\* the buffers handed to the dispatcher so far are the first messages of
\* the input, in input order, and readInput finishes only with all of them
\* handed over and the input consumed
FramedInOrder ==
    /\ Len(hbuf) <= Len(MessagesOf(fnArg))
    /\ \A i \in 1..Len(hbuf) : hbuf[i] = MessagesOf(fnArg)[i]
    /\ ReaderFinished
          => /\ Len(hbuf) = Len(MessagesOf(fnArg))
             /\ stdin = <<>>
             /\ rpos = Len(fnArg)

\* C11: for an input of k messages (a header line, field lines, one blank
\* line each) readInput hands exactly k buffers to the dispatcher, in input
\* order, each holding the lines of one message, and it consumes the whole
\* input and finishes, unless a handler ends the process on a fatal error.
C11_Framing == []FramedInOrder /\ <>(ReaderFinished \/ exit = "exit1")

(***************************************************************************)
(* configure on its own: the method run on one Configuration message, as   *)
(* TestSettingRegion does.                                                 *)
(***************************************************************************)
MaxItems == 2

\* the Config-Item values APT may send: key=value
ConfigItems ==
    {configItemAcquireS3Region \o <<"=", "us-west-2">>,
     configItemAcquireS3Region \o <<"=", "eu-west-1">>,
     configItemAcquireS3Role \o <<"=", "arn", ":", "aws", ":", "iam", ":", ":", "1", ":",
                                  "role", "/", "apt">>,
     configItemAcquireS3Role \o <<"=", "arn", ":", "aws", ":", "iam", ":", ":", "1", ":",
                                  "role", "/", "a", "=", "b">>,
     <<"Dir", ":", ":", "Log", "=", "var", "/", "log", "/", "apt">>}

\* a 601 Configuration message with the given Config-Item values
ConfigurationLines(items) ==
    <<headerCodeConfigurationLine>>
        \o [i \in 1..Len(items) |-> fieldNameConfigItem \o <<":", " ">> \o items[i]]
        \o << <<>> >>

ConfigInputs ==
    {ConfigurationLines(items) :
        items \in UNION {[1..n -> ConfigItems] : n \in 1..MaxItems}}

ConfigInit ==
    /\ stdin \in ConfigInputs
    /\ fnArg = stdin
    /\ Constructed

ConfigNext ==
    \/ flushCapabilities
    \/ RunGo
    \/ RunWait
    \/ RunWake
    \/ MainReturn
    \/ ReadLine
    \/ processMessages
    \/ ReaderAdd
    \/ ReaderEOF
    \/ \E h \in Handlers : handleBytes(h)
    \/ \E h \in Handlers : configureItem(h)
    \/ \E h \in Handlers : configureSet(h)
    \/ \E h \in Handlers : configureDone(h)

ConfigSpec == ConfigInit /\ [][ConfigNext]_vars

\* the Config-Item values of the message given on stdin
GivenItems ==
    [i \in 1..(Len(fnArg) - 2) |-> SubSeq(fnArg[i + 1], 4, Len(fnArg[i + 1]))]

\* the text of a Config-Item value before and after its first "="
ItemKey(v) == SubSeq(v, 1, Index(v, "=") - 1)
ItemValue(v) == SubSeq(v, Index(v, "=") + 1, Len(v))

\* the value of the last item with the given key, or the default
RECURSIVE LastSetting(_, _, _)
LastSetting(items, key, default) ==
    IF items = <<>> THEN default
    ELSE IF ItemKey(items[Len(items)]) = key THEN ItemValue(items[Len(items)])
    ELSE LastSetting(SubSeq(items, 1, Len(items) - 1), key, default)

\* C12: once the Configuration message has been handled, region is the
\* value following "=" in its last Acquire::s3::region item, or still
\* us-east-1 when it has none; likewise roleARN (initially empty) and
\* Acquire::s3::role.
C12_LastItemWins ==
    (Len(hpc) = 1 /\ hpc[1] = "done")
        => /\ region = LastSetting(GivenItems, configItemAcquireS3Region, UsEast1RegionID)
           /\ roleARN = LastSetting(GivenItems, configItemAcquireS3Role, <<>>)

(***************************************************************************)
(* One acquire request after the Configuration message, over the forms of  *)
(* URI a sources.list entry gives: credentials with and without "/", the   *)
(* "/" raw or written %2F, and a virtual-hosted bucket without credentials.*)
(***************************************************************************)
RequestHostPath ==
    <<"@", "s3", ".", "us-west-2", ".", "amazonaws.com", "/", "bucket", "/", "a.deb">>

RequestURIs ==
    {<<"s3", ":", "/", "/", "id", ":", "secret">> \o RequestHostPath,
     <<"s3", ":", "/", "/", "fake-ac", "/", "cess-key-id", ":", "secret">> \o RequestHostPath,
     <<"s3", ":", "/", "/", "id", ":", "sec", "/", "ret">> \o RequestHostPath,
     <<"s3", ":", "/", "/", "fake-ac", "%2F", "cess-key-id", ":", "sec", "%2F", "ret">>
         \o RequestHostPath,
     <<"s3", ":", "/", "/", "bucket", ".", "s3", ".", "us-west-2", ".", "amazonaws.com",
       "/", "a.deb">>}

\* a 600 URI Acquire message for the given URI
AcquireLines(uri) ==
    << <<"6", "0", "0", " ", "URI", " ", "Acquire">>,
       fieldNameURI \o <<":", " ">> \o uri,
       fieldNameFilename \o <<":", " ", "/", "tmp", "/", "a.deb">>,
       <<>> >>

AcquireInputs == {Flatten(<<CfgBlock, AcquireLines(uri)>>) : uri \in RequestURIs}

AcquireInit ==
    /\ stdin \in AcquireInputs
    /\ fnArg = stdin
    /\ Constructed

AcquireSpec == AcquireInit /\ [][Next]_vars

\* the URI the request given on stdin names: its URI line after "URI: "
RequestURI == SubSeq(fnArg[6], 4, Len(fnArg[6]))

\* the lines of a message as written
WrittenLines(e) == Split(e.text, "\n")

\* C13: every 102, 200, 201 and 400 response written for the request has a
\* URI line that is, character for character, "URI: " and the URI of the
\* request.
C13_URIEchoed ==
    \A i \in 1..Len(out) :
        out[i].code \in {headerCodeStatus, headerCodeURIStart, headerCodeURIDone,
                         headerCodeURIFailure}
            => \E l \in 1..Len(WrittenLines(out[i])) :
                  WrittenLines(out[i])[l] = fieldNameURI \o <<":", " ">> \o RequestURI

(***************************************************************************)
(* newLocation on its own, as TestCreateLocation calls it: URIs            *)
(* s3://key:secret@host/path over credentials with and without "/" and     *)
(* over path-style and virtual-hosted addresses of s3.amazonaws.com.       *)
(***************************************************************************)
S3Hostname == <<"s3", ".", "amazonaws.com">>

Credentials ==
    {<<>>, <<"id">>, <<"fake-ac", "/", "cess">>, <<"fake-ac", "%2F", "cess">>,
     <<"fake-ac", "/", "cess", "/", "secret">>}

\* host and path: path-style with two segments and more, with one, with
\* none, with an empty second one, and virtual-hosted
HostPaths ==
    {S3Hostname \o <<"/", "bucket-name", "/", "a", "/", "b.deb">>,
     S3Hostname \o <<"/", "bucket-name">>,
     S3Hostname,
     S3Hostname \o <<"/", "bucket-name", "/">>,
     <<"bucket-name", ".">> \o S3Hostname \o <<"/", "a", "/", "b.deb">>}

LocationInputs ==
    {[key |-> k, secret |-> sec, hostPath |-> hp, s3Hostname |-> S3Hostname,
      value |-> <<"s3", ":", "/", "/">> \o k \o <<":">> \o sec \o <<"@">> \o hp]
        : k \in Credentials, sec \in Credentials, hp \in HostPaths}

\* nothing runs but the function under study
Idle ==
    /\ stdin = <<>>
    /\ Constructed

LocationInit ==
    /\ fnArg \in LocationInputs
    /\ Idle

\* ol, err := newLocation(value, s3Hostname)
CallNewLocation ==
    /\ fnRes = <<>>
    /\ fnRes' = <<newLocation(fnArg.value, fnArg.s3Hostname)>>
    /\ UNCHANGED <<fnArg, readerVars, runpc, exit, wg, stateVars, out, handlerVars>>

LocationSpec == LocationInit /\ [][CallNewLocation]_vars

\* the URI names a bucket and a key: path-style with two segments, or
\* virtual-hosted
Addressable(hp) ==
    \/ ~HasPrefix(hp, S3Hostname)
    \/ Len(Split(SubSeq(hp, Len(S3Hostname) + 1, Len(hp)), "/")) >= 3

\* C14: for every access key and secret (without ":" and "@", empty or not,
\* "/" raw or written %2F) newLocation succeeds on
\* s3://key:secret@host/path and the userinfo of the location decodes to
\* that key and that secret, every "/" unescaped.
C14_CredentialsRoundTrip ==
    (fnRes # <<>> /\ Addressable(fnArg.hostPath))
        => /\ fnRes[1].err = "nil"
           /\ fnRes[1].loc.uri.User.username = unescape(fnArg.key)
           /\ fnRes[1].loc.uri.User.password = unescape(fnArg.secret)

\* the host url.Parse finds in the URI given to newLocation
ParsedHost == urlParse(preProcessURL(fnArg.value).url).url.Host

\* the path of the URI given, after the endpoint hostname
GivenPath == SubSeq(fnArg.hostPath, Len(S3Hostname) + 1, Len(fnArg.hostPath))

\* the segments of a path: what the "/" after the first one separate
Segments(p) == IF p = <<>> THEN <<>> ELSE Split(Tail(p), "/")

\* C15: when the host of the URI is the endpoint hostname itself, the
\* bucket is the first path segment and the key the other segments joined
\* with "/" (bucket-name and a/b.deb for /bucket-name/a/b.deb), and a path
\* of fewer than two segments is the error of missing tokens.
C15_PathStyle ==
    (fnRes # <<>> /\ ParsedHost = S3Hostname)
        => /\ Len(Segments(GivenPath)) < 2
                 => /\ fnRes[1].err = "error"
                    /\ fnRes[1].text = errLocMissingRequiredTokens
           /\ Len(Segments(GivenPath)) >= 2
                 => /\ fnRes[1].err = "nil"
                    /\ fnRes[1].loc.bucket = Segments(GivenPath)[1]
                    /\ fnRes[1].loc.key = Join(Tail(Segments(GivenPath)), "/")
           /\ GivenPath = <<"/", "bucket-name", "/", "a", "/", "b.deb">>
                 => /\ fnRes[1].loc.bucket = <<"bucket-name">>
                    /\ fnRes[1].loc.key = <<"a", "/", "b.deb">>

\* s3://id:id@s3.amazonaws.com/bucket-name/a/b.deb has been resolved
C15_Witness ==
    /\ fnRes # <<>>
    /\ fnArg.value = <<"s3", ":", "/", "/", "id", ":", "id", "@">> \o S3Hostname
                         \o <<"/", "bucket-name", "/", "a", "/", "b.deb">>
    /\ ParsedHost = S3Hostname
    /\ fnRes[1].loc.bucket = <<"bucket-name">>

(***************************************************************************)
(* Package message on its own: a Message is built, written with String     *)
(* and read back with parse.                                               *)
(***************************************************************************)
MaxFields == 2

Headers ==
    {Header(700, <<"Fake", " ", "Description">>),
     Header(headerCodeCapabilities, <<"Capabilities">>),
     Header(headerCodeURIFailure, <<"URI", " ", "Failure">>)}

\* fields of the tests and of the messages the method writes: plain values,
\* a URI, and an error text with ": " in it
FieldPool ==
    {Field(<<"Foo">>, <<"bar">>),
     Field(<<"Baz">>, <<"false">>),
     Field(<<"URI">>, <<"s3", ":", "/", "/", "bucket", "/", "key">>),
     Field(<<"Message">>, <<"NoSuchKey", ":", " ", "not", " ", "found">>),
     Field(<<"Send-Config">>, <<"true">>)}

FieldLists == UNION {[1..n -> FieldPool] : n \in 0..MaxFields}

Messages == {[Header |-> h, Fields |-> fs] : h \in Headers, fs \in FieldLists}

MessageInit ==
    /\ fnArg \in Messages
    /\ Idle

\* text := m.String()
CallString ==
    /\ fnArg \in Messages
    /\ fnRes = <<>>
    /\ fnRes' = <<[text |-> MessageString(fnArg)]>>
    /\ UNCHANGED <<fnArg, readerVars, runpc, exit, wg, stateVars, out, handlerVars>>

\* m2, err := parse(text)
CallParse ==
    /\ fnArg \in Messages
    /\ Len(fnRes) = 1
    /\ fnRes' = fnRes \o <<parse(fnRes[1].text)>>
    /\ UNCHANGED <<fnArg, readerVars, runpc, exit, wg, stateVars, out, handlerVars>>

MessageNext == CallString \/ CallParse

MessageSpec == MessageInit /\ [][MessageNext]_vars

\* C16: parsing the text String gives for a Message succeeds and gives the
\* same status, the same description and the same fields in the same order.
C16_RoundTrip ==
    Len(fnRes) = 2
        => /\ fnRes[2].err = "nil"
           /\ fnRes[2].msg.Header.Status = fnArg.Header.Status
           /\ fnRes[2].msg.Header.Description = fnArg.Header.Description
           /\ fnRes[2].msg.Fields = fnArg.Fields

(***************************************************************************)
(* parseField on its own, over every short line of names, colons and       *)
(* spaces.                                                                 *)
(***************************************************************************)
MaxLineLen == 5

LineTokens == {"URI", "value", ":", " "}

Lines == UNION {[1..n -> LineTokens] : n \in 0..MaxLineLen}

FieldInit ==
    /\ fnArg \in Lines
    /\ Idle

\* f := parseField(line)
CallParseField ==
    /\ fnRes = <<>>
    /\ fnRes' = <<parseField(fnArg)>>
    /\ UNCHANGED <<fnArg, readerVars, runpc, exit, wg, stateVars, out, handlerVars>>

FieldSpec == FieldInit /\ [][CallParseField]_vars

\* the line as parse hands it on, without the white space around it
GivenLine == TrimSpace(fnArg)

\* C17: of a field line, the name is the text before the first colon and
\* the value all the text after it, further colons and the text around them
\* included, less the white space at its two ends; "URI:value" gives the
\* name URI and the value value; a line with no colon gives the whole line
\* as the name and an empty value.
C17_FieldLine ==
    fnRes # <<>>
        => /\ Index(GivenLine, ":") = 0
                 => /\ fnRes[1].Name = GivenLine
                    /\ fnRes[1].Value = <<>>
           /\ Index(GivenLine, ":") > 0
                 => /\ fnRes[1].Name = SubSeq(GivenLine, 1, Index(GivenLine, ":") - 1)
                    /\ fnRes[1].Value =
                           TrimSpace(SubSeq(GivenLine, Index(GivenLine, ":") + 1,
                                            Len(GivenLine)))
           /\ fnArg = <<"URI", ":", "value">>
                 => fnRes[1] = Field(<<"URI">>, <<"value">>)

(***************************************************************************)
(* GetFieldValue and GetFieldList on their own: a Message whose fields     *)
(* repeat names, and a name to look for.                                   *)
(***************************************************************************)
MaxLookupFields == 3

LookupPool ==
    {Field(<<"Foo">>, <<"bar">>),
     Field(<<"Foo">>, <<"second">>),
     Field(<<"foo">>, <<"lower">>),
     Field(<<"Baz">>, <<"qux">>),
     Field(fieldNameConfigItem, <<"bar">>),
     Field(fieldNameConfigItem, <<"qux">>)}

LookupNames == {<<"Foo">>, <<"foo">>, <<"Baz">>, <<"Nope">>, fieldNameConfigItem}

\* the Configuration message of the tests: its 12 Config-Item fields
TwelveItems == [i \in 1..12 |-> Field(fieldNameConfigItem, Itoa(i))]

LookupFields ==
    UNION {[1..n -> LookupPool] : n \in 0..MaxLookupFields} \cup {TwelveItems}

LookupInputs ==
    {[msg |-> [Header |-> Header(700, <<"Fake", " ", "Description">>), Fields |-> fs],
      name |-> n] : fs \in LookupFields, n \in LookupNames}

LookupInit ==
    /\ fnArg \in LookupInputs
    /\ Idle

\* value, ok := m.GetFieldValue(name)
CallGetFieldValue ==
    /\ fnRes = <<>>
    /\ fnRes' = <<GetFieldValue(fnArg.msg, fnArg.name)>>
    /\ UNCHANGED <<fnArg, readerVars, runpc, exit, wg, stateVars, out, handlerVars>>

\* fields := m.GetFieldList(name)
CallGetFieldList ==
    /\ Len(fnRes) = 1
    /\ fnRes' = fnRes \o <<[list |-> GetFieldList(fnArg.msg, fnArg.name)]>>
    /\ UNCHANGED <<fnArg, readerVars, runpc, exit, wg, stateVars, out, handlerVars>>

LookupNext == CallGetFieldValue \/ CallGetFieldList

LookupSpec == LookupInit /\ [][LookupNext]_vars

\* the places of the fields of the Message that have the name looked for
Matches == {i \in 1..Len(fnArg.msg.Fields) : fnArg.msg.Fields[i].Name = fnArg.name}

\* C18: GetFieldValue gives the value of the first field whose name is
\* exactly the name asked for, and true; the empty string and false when
\* no field has the name. With the fields (Foo, bar), (Baz, qux): (bar,
\* true) for Foo, the empty string and false for Nope.
C18_FirstMatch ==
    Len(fnRes) >= 1
        => /\ Matches = {} => fnRes[1] = [value |-> <<>>, found |-> FALSE]
           /\ Matches # {}
                 => /\ fnRes[1].found
                    /\ \E i \in Matches :
                          /\ \A j \in Matches : i <= j
                          /\ fnRes[1].value = fnArg.msg.Fields[i].Value
           /\ fnArg.msg.Fields = <<Field(<<"Foo">>, <<"bar">>), Field(<<"Baz">>, <<"qux">>)>>
                 => /\ fnArg.name = <<"Foo">>
                          => fnRes[1] = [value |-> <<"bar">>, found |-> TRUE]
                    /\ fnArg.name = <<"Nope">>
                          => fnRes[1] = [value |-> <<>>, found |-> FALSE]

\* Foo has been looked for in a Message with two fields Foo of different
\* values and a field foo before them
C18_Witness ==
    /\ Len(fnRes) >= 1
    /\ fnArg.name = <<"Foo">>
    /\ fnArg.msg.Fields = <<Field(<<"foo">>, <<"lower">>), Field(<<"Foo">>, <<"bar">>),
                            Field(<<"Foo">>, <<"second">>)>>
    /\ fnRes[1].found

HasName(f) == f.Name = fnArg.name

\* C19: GetFieldList gives the fields whose name is the name asked for and
\* no other, in the order of the Message, as many as the Message has (12
\* for the 12 Config-Item fields of a Configuration), none when no field
\* has the name.
C19_AllMatches ==
    Len(fnRes) = 2
        => /\ fnRes[2].list = SelectSeq(fnArg.msg.Fields, HasName)
           /\ Len(fnRes[2].list) = Cardinality(Matches)
           /\ Matches = {} => fnRes[2].list = <<>>
           /\ (fnArg.msg.Fields = TwelveItems /\ fnArg.name = fieldNameConfigItem)
                 => Len(fnRes[2].list) = 12

\* the Config-Item fields of a Message that has two different ones and
\* another field between them have been listed
C19_Witness ==
    /\ Len(fnRes) = 2
    /\ fnArg.name = fieldNameConfigItem
    /\ fnArg.msg.Fields = <<Field(fieldNameConfigItem, <<"bar">>), Field(<<"Baz">>, <<"qux">>),
                            Field(fieldNameConfigItem, <<"qux">>)>>
    /\ Len(fnRes[2].list) = 2

\* the lines of a text written to stdout, the empty piece after the last
\* line terminator included
OutputLines(e) == Split(e.text, "\n")

\* C20: every message written to stdout is its header line, the status, one
\* space and the description, then a line name, colon, space, value for
\* each of its fields in their order, then one blank line and no more.
\* (stdout only grows: every message is the last one of out in the state
\* that follows its writing.)
C20_WireFormat ==
    \A i \in {Len(out)} \ {0} :
        \E ls \in {OutputLines(out[i])} :
            /\ Len(ls) = Len(out[i].msg.Fields) + 3
            /\ ls[1] = Itoa(out[i].msg.Header.Status) \o <<" ">>
                          \o out[i].msg.Header.Description
            /\ \A k \in 1..Len(out[i].msg.Fields) :
                   ls[k + 1] = out[i].msg.Fields[k].Name \o <<":", " ">>
                                  \o out[i].msg.Fields[k].Value
            /\ ls[Len(ls) - 1] = <<>>
            /\ ls[Len(ls)] = <<>>

\* the 100 Capabilities and a 201 URI Done, with its nine fields, have
\* been written
C20_Witness ==
    /\ \E i \in 1..Len(out) :
          out[i].code = headerCodeURIDone /\ Len(out[i].msg.Fields) = 9
    /\ \E i \in 1..Len(out) : out[i].code = headerCodeCapabilities

(***************************************************************************)
(* Acquire messages that lack a required field, after a Configuration.     *)
(***************************************************************************)
\* 600 URI Acquire without its URI field
AcqNoURIBlock == <<AcqBlock[1], AcqBlock[3], <<>>>>

\* 600 URI Acquire without its Filename field
AcqNoFilenameBlock == <<AcqBlock[1], AcqBlock[2], <<>>>>

MissingFieldInputs ==
    {Flatten(<<CfgBlock, b>>) : b \in {AcqBlock, AcqNoURIBlock, AcqNoFilenameBlock}}

MissingFieldInit ==
    /\ stdin \in MissingFieldInputs
    /\ fnArg = stdin
    /\ Constructed

MissingFieldSpec == MissingFieldInit /\ [][Next]_vars

\* handler h has a 600 URI Acquire that lacks the URI or the Filename field
LacksField(h) ==
    /\ hl[h].msg # NoMessage
    /\ hl[h].msg.Header.Status = headerCodeURIAcquire
    /\ \/ ~GetFieldValue(hl[h].msg, fieldNameURI).found
       \/ ~GetFieldValue(hl[h].msg, fieldNameFilename).found

\* C21: an acquire that lacks the URI or the Filename field is never
\* answered with a 201 URI Done nor with a 400 URI Failure, and once its
\* handler has returned or stopped the process a 401 General Failure is
\* written and the exit status is not zero.
C21_MissingFieldFatal ==
    \A h \in Handlers :
        LacksField(h)
            => /\ \A i \in 1..Len(out) :
                      out[i].h = h => out[i].code \notin {headerCodeURIDone,
                                                          headerCodeURIFailure}
               /\ hpc[h] = "done" => FALSE
               /\ (exit = "exit1" /\ hpc[h] = "exit")
                      => \E i \in 1..Len(out) :
                            out[i].h = h /\ out[i].code = headerCodeGeneralFailure

\* handler h has gone through configure with a Configuration message
ConfigurationHandled(h) == IsConfiguration(h) /\ hpc[h] \in {"cfgWg", "done"}

\* C22: m.configured is false at the start, is true once a Configuration
\* message has been handled, is set by the end of configure and by nothing
\* else, and no step of any goroutine takes it back to false.
C22_ConfiguredOnce ==
    /\ ~configured
    /\ [](\A h \in Handlers : ConfigurationHandled(h) => configured)
    /\ [][/\ configured => configured'
          /\ (~configured /\ configured')
                => \E h \in Handlers :
                      IsConfiguration(h) /\ hpc[h] = "cfg" /\ hpc'[h] = "cfgWg"]_vars

\* a second Configuration message has been handled after the first, and
\* the flag is still set
C22_Witness ==
    /\ configured
    /\ Len(hpc) = 2
    /\ \A h \in Handlers : ConfigurationHandled(h) /\ hpc[h] = "done"

(***************************************************************************)
(* Blank lines on stdin before the first header line.                      *)
(***************************************************************************)
MaxBlanks == 4

BlankLines(n) == [i \in 1..n |-> <<>>]

\* a Configuration and an acquire, after 0 to MaxBlanks blank lines
BlankInputs == {BlankLines(n) \o Flatten(<<CfgBlock, AcqBlock>>) : n \in 0..MaxBlanks}

BlankInit ==
    /\ stdin \in BlankInputs
    /\ fnArg = stdin
    /\ Constructed

BlankSpec == BlankInit /\ [][Next]_vars

\* the bytes handed to handler h hold more than line terminators
HasContent(h) == \E i \in 1..Len(hbuf[h]) : hbuf[h][i] # "\n"

\* C23: the blank lines before a header line, however many in a row, are
\* never handed to the dispatcher as a message of their own: every message
\* dispatched holds a line that is not blank.
C23_NoBlankMessage == \A h \in Handlers : HasContent(h)

\* C24: in every state of every interleaving of readInput, processMessages
\* and the handlers, the counter of m.wg is zero or more: no Done takes it
\* below zero.
C24_CountNonNegative == wg >= 0

\* a handler's Done has taken the counter to zero while readInput has not
\* yet added the unit of the message it sent
C24_Witness ==
    /\ wg = 0
    /\ rpc = "add"
    /\ \E h \in Handlers : wgDone[h] = 1

(***************************************************************************)
(* A second Configuration message, of another region, around an acquire.   *)
(***************************************************************************)
\* 601 Configuration setting the region us-east-1
CfgEastBlock ==
    << headerCodeConfigurationLine,
       fieldNameConfigItem \o <<":", " ">> \o configItemAcquireS3Region
           \o <<"=">> \o UsEast1RegionID,
       <<>> >>

RegionInputs ==
    {Flatten(<<CfgBlock, AcqBlock, CfgEastBlock>>),
     Flatten(<<CfgBlock, CfgEastBlock, AcqBlock>>)}

RegionInit ==
    /\ stdin \in RegionInputs
    /\ fnArg = stdin
    /\ Constructed

RegionSpec == RegionInit /\ [][Next]_vars

\* C25: within one acquire, the region the client is created with is the
\* region the endpoint hostname was resolved with, whatever Configuration
\* handlers run meanwhile.
C25_OneRegion ==
    \A h \in Handlers :
        hl[h].clRegion # <<>> => hl[h].clRegion = hl[h].epRegion

\* C26: once a 401 General Failure is written no other message follows it
\* before the process ends: it is the last message written, and there is at
\* most one.
C26_FailureIsLast ==
    \A i \in 1..Len(out) :
        out[i].code = headerCodeGeneralFailure => i = Len(out)

\* the input given holds a message with this header line
InputHas(headerLine) == \E i \in 1..Len(fnArg) : fnArg[i] = headerLine

\* C27: when the input holds acquire messages and no Configuration message,
\* no acquire handler writes a message or calls the backend, and Run does
\* not return, the end of the input reached or not.
C27_NoConfigurationNoAcquire ==
    (InputHas(AcqBlock[1]) /\ ~InputHas(CfgBlock[1]))
        => /\ \A h \in Handlers :
                  IsAcquire(h) => ~Wrote(h) /\ calls[h] = NoCalls
           /\ runpc \notin {"released", "returned"}
           /\ exit # "exit0"

\* the input is read to its end, it held no Configuration, and an acquire
\* handler is in waitForConfiguration while Run is blocked in Wait
C27_Witness ==
    /\ ~InputHas(CfgBlock[1])
    /\ ReaderFinished
    /\ runpc = "blocked"
    /\ \E h \in Handlers : IsAcquire(h) /\ hpc[h] = "wait"

(***************************************************************************)
(* An input that ends in the middle of a message, with no blank line after *)
(* its last lines.                                                         *)
(***************************************************************************)
\* the first lines of a message, its blank line not among them
PartialBlocks == {SubSeq(AcqBlock, 1, 2), SubSeq(AcqBlock, 1, 3), SubSeq(CfgBlock, 1, 1)}

PartialInputs ==
    {Flatten(bs) \o p : bs \in {<<>>, <<CfgBlock>>, <<CfgBlock, AcqBlock>>},
                        p \in PartialBlocks}

PartialInit ==
    /\ stdin \in PartialInputs
    /\ fnArg = stdin
    /\ Constructed

PartialSpec == PartialInit /\ [][Next]_vars

\* the lines of the input after its last blank line
PartialTail ==
    IF \A i \in 1..Len(fnArg) : fnArg[i] # <<>> THEN fnArg
    ELSE SubSeq(fnArg,
                (CHOOSE i \in 1..Len(fnArg) :
                     fnArg[i] = <<>> /\ \A j \in (i + 1)..Len(fnArg) : fnArg[j] # <<>>) + 1,
                Len(fnArg))

RECURSIVE SumSeq(_)
SumSeq(ns) == IF ns = <<>> THEN 0 ELSE Head(ns) + SumSeq(Tail(ns))

\* C28: the lines after the last blank line of the input are never
\* dispatched: when readInput has finished they are still in its buffer,
\* there are as many handlers and as many units added as the input has
\* terminated messages, nothing is written for them, and the counter is its
\* first unit and the units added less one per Done of a handler and one,
\* no more, for readInput.
C28_PartialDiscarded ==
    /\ Len(hpc) <= Len(MessagesOf(fnArg))
    /\ wgAdd <= Len(MessagesOf(fnArg))
    /\ \A i \in 1..Len(out) : out[i].h <= Len(MessagesOf(fnArg))
    /\ \A h \in Handlers : hbuf[h] = MessagesOf(fnArg)[h]
    /\ ReaderFinished
          => /\ buffer = LinesText(PartialTail)
             /\ Len(hpc) = Len(MessagesOf(fnArg))
             /\ wgAdd = Len(MessagesOf(fnArg))
    /\ wg = 1 + wgAdd - SumSeq(wgDone) - (IF ReaderFinished THEN 1 ELSE 0)

\* readInput has finished on an input that ends with the first lines of a
\* message after a whole one
C28_Witness ==
    /\ ReaderFinished
    /\ PartialTail # <<>>
    /\ buffer # <<>>
    /\ Len(hpc) >= 1

\* the failures handler h has reported: its 400 and 401 messages
Reports(h) ==
    {i \in 1..Len(out) :
        out[i].h = h /\ out[i].code \in {headerCodeURIFailure, headerCodeGeneralFailure}}

\* C29: for each acquire the probe is called at most once and the download
\* at most once, the download only after the probe has succeeded, and a
\* probe or a download that failed is reported once and not called again.
C29_NoRetry ==
    \A h \in Handlers :
        /\ calls[h].head <= 1
        /\ calls[h].download <= 1
        /\ calls[h].download = 1 => calls[h].head = 1 /\ hl[h].head = "ok"
        /\ hl[h].head \in {"notfound", "error"} => calls[h].download = 0
        /\ Cardinality(Reports(h)) <= 1
        /\ (hl[h].err = BackendError /\ hpc[h] \in {"exit", "done"})
              => Cardinality(Reports(h)) = 1

\* a probe that answered an error other than 404 has been reported, and so
\* has a download that failed after a probe that succeeded
C29_Witness ==
    \E h \in Handlers :
        /\ hl[h].err = BackendError
        /\ hpc[h] = "exit"
        /\ calls[h].head = 1
        /\ calls[h].download = 1
        /\ Cardinality(Reports(h)) = 1

(***************************************************************************)
(* newLocation on hosts that are not the endpoint hostname.                *)
(***************************************************************************)
\* a bucket before the endpoint hostname, a bucket with a "." in it, a host
\* that ends with the endpoint hostname with no "." before it, a host of
\* another service, and the endpoint hostname itself
Hosts ==
    {<<"bucket-name", ".">> \o S3Hostname,
     <<"a", ".", "b", ".">> \o S3Hostname,
     <<"my">> \o S3Hostname,
     <<"minio", ".", "example.com">>,
     S3Hostname}

Paths == {<<"/", "a", "/", "b.deb">>, <<"/", "a">>, <<"/">>, <<>>}

HostInputs ==
    {[key |-> k, secret |-> sec, host |-> hst, path |-> p, s3Hostname |-> S3Hostname,
      value |-> <<"s3", ":", "/", "/">>
                   \o (IF k = <<>> /\ sec = <<>> THEN <<>> ELSE k \o <<":">> \o sec \o <<"@">>)
                   \o hst \o p]
        : k \in {<<>>, <<"id">>}, sec \in {<<>>, <<"secret">>}, hst \in Hosts, p \in Paths}

HostInit ==
    /\ fnArg \in HostInputs
    /\ Idle

HostSpec == HostInit /\ [][CallNewLocation]_vars

C31_ResolutionTotal ==
    fnRes # <<>>
        => /\ fnRes[1].err \in {"nil", "error"}
           /\ fnRes[1].err = "error"
                 => \/ Head(fnRes[1].text) = "parse"
                    \/ /\ fnRes[1].text = errLocMissingRequiredTokens
                       /\ fnArg.host = fnArg.s3Hostname
                       /\ Len(Split(fnArg.path, "/")) < 3
           /\ (fnArg.host # fnArg.s3Hostname /\ fnArg.path = <<>>)
                 => /\ fnRes[1].err = "nil"
                    /\ fnRes[1].loc.key = <<>>

\* C32: every 400 URI Failure message written has two fields, the Message
\* field with the fixed not-found text first and the URI field second.
C32_NotFoundFieldOrder ==
    \A i \in 1..Len(out) :
        out[i].code = headerCodeURIFailure
            => /\ Len(out[i].msg.Fields) = 2
               /\ out[i].msg.Fields[1] = Field(fieldNameMessage, fieldValueNotFound)
               /\ out[i].msg.Fields[2].Name = fieldNameURI

(***************************************************************************)
(* configure on Config-Item values of every form: key=value, a key with    *)
(* the empty value, and a key with no "=" at all.                          *)
(***************************************************************************)
ItemForms ==
    {configItemAcquireS3Region \o <<"=", "us-west-2">>,
     configItemAcquireS3Region \o <<"=">>,
     configItemAcquireS3Region,
     configItemAcquireS3Role,
     <<"Dir", ":", ":", "Log">>}

ItemFormInputs ==
    {ConfigurationLines(items) :
        items \in UNION {[1..n -> ItemForms] : n \in 1..MaxItems}}

ItemFormInit ==
    /\ stdin \in ItemFormInputs
    /\ fnArg = stdin
    /\ Constructed

ItemFormSpec == ItemFormInit /\ [][ConfigNext]_vars

\* C33: handling a Configuration message runs to completion whatever the
\* form of its Config-Item values, an item naming a recognised key with no
\* "=" included: the process is never aborted while the handler is in its
\* loop over the items, so that configured becomes true and the message's
\* unit of outstanding work is released.
C33_ConfigureCompletes ==
    \A h \in Handlers : hpc[h] = "cfg" => exit # "panic"

(***************************************************************************)
(* One acquire request after a Configuration message with and without a    *)
(* role, over the forms of the user part of its URI: key and secret, a key *)
(* alone, a key with the empty secret, a secret alone, and none.           *)
(***************************************************************************)
UserParts ==
    {<<"id", ":", "secret", "@">>, <<"id", "@">>, <<"id", ":", "@">>,
     <<":", "secret", "@">>, <<>>}

CredentialInputs ==
    {Flatten(<<cfg, AcquireLines(<<"s3", ":", "/", "/">> \o up \o Tail(RequestHostPath))>>)
        : cfg \in {CfgBlock, CfgEastBlock}, up \in UserParts}

CredentialInit ==
    /\ stdin \in CredentialInputs
    /\ fnArg = stdin
    /\ Constructed

CredentialSpec == CredentialInit /\ [][Next]_vars

\* the user part of the URI of the request handler h has: what stands
\* between "s3://" and "@"
GivenUser(h) ==
    LET v == GetFieldValue(hl[h].msg, fieldNameURI).value
    IN  IF Index(v, "@") = 0 THEN <<>> ELSE SubSeq(v, 5, Index(v, "@") - 1)

GivenAccessKey(h) ==
    IF Index(GivenUser(h), ":") = 0 THEN GivenUser(h)
    ELSE SubSeq(GivenUser(h), 1, Index(GivenUser(h), ":") - 1)

GivenSecret(h) ==
    SubSeq(GivenUser(h), Index(GivenUser(h), ":") + 1, Len(GivenUser(h)))

HasSecret(h) == Index(GivenUser(h), ":") # 0

\* C35: the client of an acquire that went on to the probe has the access
\* key and the secret of the URI when the access key is not empty, else the
\* configured role when there is one, else the default chain; an access key
\* with no secret component never reaches the probe: its handler writes 401
\* General Failure naming the missing password and ends the process.
C35_CredentialChoice ==
    \A h \in Handlers :
        /\ (hpc[h] = "head" \/ calls[h].head > 0)
              => hl[h].cred =
                    (IF GivenAccessKey(h) # <<>>
                     THEN <<"static", ":">> \o GivenAccessKey(h) \o <<":">> \o GivenSecret(h)
                     ELSE IF roleARN # <<>> THEN <<"role", ":">> \o roleARN
                     ELSE <<"default">>)
        /\ (IsAcquire(h) /\ GivenAccessKey(h) # <<>> /\ ~HasSecret(h))
              => /\ hpc[h] # "head"
                 /\ calls[h].head = 0
                 /\ hpc[h] \in {"fail", "exit"}
                       => hl[h].err = errAcqMsgMissingRequiredFieldPassword
                 /\ hpc[h] \in {"start", "wait", "resolve", "status", "client", "fail",
                                "exit"}
                 /\ hpc[h] = "exit"
                       => \E i \in Reports(h) :
                             /\ out[i].code = headerCodeGeneralFailure
                             /\ out[i].msg.Fields[1].Value
                                    = errAcqMsgMissingRequiredFieldPassword

\* a request with no user part has been probed with the configured role
C35_Witness ==
    \E h \in Handlers :
        /\ calls[h].head = 1
        /\ GivenUser(h) = <<>>
        /\ roleARN # <<>>
        /\ hl[h].cred = <<"role", ":">> \o roleARN

(***************************************************************************)
(* configure on items of other keys: keys of other parts of APT, as in     *)
(* configMsg of the tests, and keys close to the two recognised ones.      *)
(***************************************************************************)
OtherItems ==
    {<<"Dir", ":", ":", "Log", "=", "var", "/", "log", "/", "apt">>,
     <<"Dir", ":", ":", "Ignore-Files-Silently", ":", ":", "=", "~$">>,
     <<"Acquire", ":", ":", "cdrom", ":", ":", "mount", "=", "/", "media", "/", "cdrom">>,
     <<"Acquire", ":", ":", "s3", "=", "region">>,
     configItemAcquireS3Region \o <<":", ":", "=", "eu-west-1">>,
     <<"=">> \o configItemAcquireS3Role,
     <<"Dir", ":", ":", "Log">>}

OtherItemInputs ==
    {ConfigurationLines(items) :
        items \in UNION {[1..n -> OtherItems \cup {configItemAcquireS3Region
                                                      \o <<"=", "us-west-2">>}]
                            : n \in 1..MaxItems}}

OtherItemInit ==
    /\ stdin \in OtherItemInputs
    /\ fnArg = stdin
    /\ Constructed

OtherItemSpec == OtherItemInit /\ [][ConfigNext]_vars

\* every Config-Item value of the message given on stdin has another key
OnlyOtherItems == \A i \in 1..Len(GivenItems) : GivenItems[i] \in OtherItems

\* C34: a Configuration message whose Config-Item fields all have keys
\* other than the region key and the role key leaves region and roleARN as
\* New() set them, and its handler still sets configured and releases its
\* unit of outstanding work once.
C34_OtherKeysIgnored ==
    OnlyOtherItems
        => /\ region = UsEast1RegionID
           /\ roleARN = <<>>
           /\ \A h \in Handlers :
                 /\ hpc[h] \in {"start", "cfg", "cfgWg", "done"}
                 /\ hpc[h] \in {"cfgWg", "done"} => configured
                 /\ wgDone[h] = (IF hpc[h] = "done" THEN 1 ELSE 0)
                 /\ hpc[h] \in {"cfg", "cfgWg"} => exit = "running"

\* a message of two items with other keys has been handled to its end
C34_Witness ==
    /\ OnlyOtherItems
    /\ Len(GivenItems) = 2
    /\ Len(hpc) = 1
    /\ hpc[1] = "done"
    /\ hl[1].i = 3
    /\ configured
    /\ region = UsEast1RegionID

(***************************************************************************)
(* Messages of a header line and nothing else, and runs of blank lines     *)
(* long enough to be dispatched, among complete messages.                  *)
(***************************************************************************)
CfgHeaderBlock == <<headerCodeConfigurationLine, <<>> >>

AcqHeaderBlock == << <<"6", "0", "0", " ", "URI", " ", "Acquire">>, <<>> >>

ShortBlocks ==
    {CfgBlock, AcqBlock, CfgHeaderBlock, AcqHeaderBlock, BlankLines(MaxBlanks + 1)}

\* every stdin made of two of these blocks
ShortInputs == {Flatten(<<a, b>>) : a \in ShortBlocks, b \in ShortBlocks}

ShortInit ==
    /\ stdin \in ShortInputs
    /\ fnArg = stdin
    /\ Constructed

ShortSpec == ShortInit /\ [][Next]_vars

\* the lines of the text handler h was given, once trimmed
TrimmedLines(h) == Split(TrimSpace(hbuf[h]), "\n")

\* C36: a text that has fewer than two lines once trimmed is not parsed into
\* a message: the handler given it gets the parse error, goes to the fatal
\* error path and nowhere else, and sets no state; a text of two lines and
\* more with an integer status is parsed.
C36_ShortMessageFatal ==
    \A h \in Handlers :
        hpc[h] # "start"
            => /\ Len(TrimmedLines(h)) < 2
                    => /\ hl[h].msg = NoMessage
                       /\ hl[h].err = << "message missing required number of lines" >>
                       /\ hpc[h] \in {"fail", "exit"}
                       /\ wgDone[h] = 0
                       /\ hpc[h] = "exit"
                             => \E i \in Reports(h) :
                                   out[i].code = headerCodeGeneralFailure
               /\ Len(TrimmedLines(h)) >= 2
                    => /\ hl[h].msg # NoMessage
                       /\ Len(hl[h].msg.Fields) = Len(TrimmedLines(h)) - 1

\* a message of a header line only has been reported as a failure and the
\* process has ended
C36_Witness ==
    \E h \in Handlers :
        /\ TrimSpace(hbuf[h]) = headerCodeConfigurationLine
        /\ hpc[h] = "exit"
        /\ ~configured
        /\ exit = "exit1"

(***************************************************************************)
(* parseHeader on its own, over every short line of digits, signs, words,  *)
(* spaces and tabs.                                                        *)
(***************************************************************************)
MaxHeaderLen == 5

HeaderTokens == {"6", "-", "U", " ", "\t"}

HeaderLines == UNION {[1..n -> HeaderTokens] : n \in 0..MaxHeaderLen}

HeaderInit ==
    /\ fnArg \in HeaderLines
    /\ Idle

\* header, err := parseHeader(headerLine)
CallParseHeader ==
    /\ fnRes = <<>>
    /\ fnRes' = <<parseHeader(fnArg)>>
    /\ UNCHANGED <<fnArg, readerVars, runpc, exit, wg, stateVars, out, handlerVars>>

HeaderSpec == HeaderInit /\ [][CallParseHeader]_vars

\* the space-delimited tokens of the line given
GivenTokens == Split(TrimSpace(fnArg), " ")

\* an integer as written: digits, after a sign or not
Unsigned(token) ==
    IF token # <<>> /\ token[1] \in {"+", "-"} THEN Tail(token) ELSE token

IsInteger(token) ==
    Unsigned(token) # <<>> /\ \A i \in 1..Len(Unsigned(token)) : IsDigit(Unsigned(token)[i])

IntegerOf(token) ==
    IF token[1] = "-" THEN 0 - DigitsVal(Unsigned(token)) ELSE DigitsVal(Unsigned(token))

\* C37: the status is the first space-delimited token of the line: when it
\* is not an integer parsing fails, otherwise the description is the
\* remaining tokens joined with single spaces, empty when there is none.
C37_HeaderTokens ==
    fnRes # <<>>
        => /\ ~IsInteger(GivenTokens[1]) => fnRes[1].err # "nil"
           /\ IsInteger(GivenTokens[1])
                 => /\ fnRes[1].err = "nil"
                    /\ fnRes[1].hdr.Status = IntegerOf(GivenTokens[1])
                    /\ fnRes[1].hdr.Description = Join(Tail(GivenTokens), " ")
                    /\ Len(GivenTokens) = 1 => fnRes[1].hdr.Description = <<>>

\* the tokens of the line given, each less the white space at its two ends
TrimmedTokens == [i \in 1..Len(GivenTokens) |-> TrimSpace(GivenTokens[i])]

\* C37 amended: the tokens are trimmed of white space one by one before
\* they are used: when the trimmed first token is not an integer parsing
\* fails, otherwise the description is the remaining trimmed tokens joined
\* with single spaces, empty when there is none.
C37_HeaderTrimmedTokens ==
    fnRes # <<>>
        => /\ ~IsInteger(TrimmedTokens[1]) => fnRes[1].err # "nil"
           /\ IsInteger(TrimmedTokens[1])
                 => /\ fnRes[1].err = "nil"
                    /\ fnRes[1].hdr.Status = IntegerOf(TrimmedTokens[1])
                    /\ fnRes[1].hdr.Description = Join(Tail(TrimmedTokens), " ")
                    /\ Len(GivenTokens) = 1 => fnRes[1].hdr.Description = <<>>
           /\ fnArg = <<"6", " ", "U", " ", "U">>
                 => fnRes[1] = [err |-> "nil", hdr |-> Header(6, <<"U", " ", "U">>)]

\* a header whose status token ends with a tab has been parsed
C37_Witness ==
    /\ fnArg = <<"6", "\t", " ", "U">>
    /\ fnRes # <<>>
    /\ fnRes[1] = [err |-> "nil", hdr |-> Header(6, <<"U">>)]

\* how many times c stands in the text
Count(text, c) == Cardinality({k \in 1..Len(text) : text[k] = c})

\* C38: every 401 General Failure written has one field, Message, whose
\* value is the error text of its handler with a space for each newline, and
\* its text is a header line, one field line and the blank line after them.
C38_FailureOneLine ==
    \A i \in 1..Len(out) :
        out[i].code = headerCodeGeneralFailure
            => /\ Len(out[i].msg.Fields) = 1
               /\ out[i].msg.Fields[1].Name = fieldNameMessage
               /\ Len(out[i].msg.Fields[1].Value) = Len(hl[out[i].h].err)
               /\ \A k \in 1..Len(hl[out[i].h].err) :
                     out[i].msg.Fields[1].Value[k]
                         = (IF hl[out[i].h].err[k] = "\n" THEN " " ELSE hl[out[i].h].err[k])
               /\ Count(out[i].text, "\n") = 3
               /\ SubSeq(out[i].text, Len(out[i].text) - 1, Len(out[i].text)) = <<"\n", "\n">>

\* an error text of two lines has been written as a General Failure
C38_Witness ==
    \E i \in 1..Len(out) :
        /\ out[i].code = headerCodeGeneralFailure
        /\ Count(hl[out[i].h].err, "\n") = 1
        /\ Count(out[i].msg.Fields[1].Value, "\n") = 0

\* C39: in every 201 URI Done message written the MD5-Hash field and the
\* MD5Sum-Hash field are there with the same value, the MD5 digest of the
\* bytes of the downloaded file.
C39_SameMD5 ==
    \A i \in 1..Len(out) :
        out[i].code = headerCodeURIDone
            => \E md5 \in {GetFieldValue(out[i].msg, fieldNameMD5Hash)},
                  md5Sum \in {GetFieldValue(out[i].msg, fieldNameMD5SumHash)} :
                  /\ md5.found
                  /\ md5Sum.found
                  /\ md5Sum.value = md5.value
                  /\ md5.value = <<"md5", "(">> \o hl[out[i].h].file \o <<")">>
                  /\ hl[out[i].h].file = ObjectBody

\* a 201 URI Done has been written for a downloaded file
C39_Witness ==
    \E i \in 1..Len(out) :
        /\ out[i].code = headerCodeURIDone
        /\ calls[out[i].h].download = 1
        /\ GetFieldValue(out[i].msg, fieldNameMD5SumHash).value
               = <<"md5", "(">> \o ObjectBody \o <<")">>

====
